---- MODULE Spec2Model ----
(***************************************************************************)
(* Live quiz sessions of gdgc-backend: the in-memory session manager       *)
(* (src/src/socket/socketHandlers.js, imported as sessionManager) and the  *)
(* socket event handlers of the /quiz namespace                            *)
(* (src/src/socket/quizSessionHandlers.js).                                *)
(*                                                                         *)
(* One session code is modelled.  Node runs every handler on one thread,   *)
(* so a handler is atomic up to its first `await`; a handler that awaits a *)
(* durable write is split there into a start action and a resume action,   *)
(* and any other handler or timer may run in between.  Durable writes that *)
(* are not awaited (fire and forget) do not split a handler.               *)
(*                                                                         *)
(* Time: `now` is Date.now() measured from the instant questionStartTime   *)
(* was last assigned (advanceQuestion re-bases it to 0) and saturates at   *)
(* MaxLatency, the first value at which every answer is late.  The grace,  *)
(* completion and removal timers (120 s, 5 s, 300 s / 60 s) may fire at    *)
(* any moment after they were armed.                                       *)
(***************************************************************************)
EXTENDS Integers, Sequences, FiniteSets, TLC

\* ------------------------------------------------------------------ bounds
MaxParticipants == 1
MaxQuestions == 2
MaxCompleteTimers == 1
MaxInflight == 1
MaxJoins == 2
MaxStrayTimers == 1
MaxWrites == 2
TimePerQuestion == 1
TickMs == 2000

\* ------------------------------------------------------- program constants
BasePointsPerQuestion == 100
SpeedBonusMax == 50
SkewToleranceMs == 1000
DefaultTimePerQuestion == 30
MsPerSecond == 1000
QuestionEndLeaderboardSize == 10
EpochMs == 2000000000
\* Host socket ids are compared only with session.adminSocketId: the socket
\* that created the session is FirstSocketId, every later one LaterSocketId.
FirstSocketId == 1
LaterSocketId == 2

Null == "null"
\* Socket ids are only ever compared for equality with the id of the socket
\* an event arrives on, and a client has one open socket at a time: a
\* participant-side id is modelled by whether it names the client's open socket.
NoSocket == "none"
OpenSocket == "open"
ClosedSocket == "closed"
\* the id of a connection the client has replaced by its open one while the
\* server has not yet seen it disconnect, and the mark of such a connection
\* whose disconnect came after the participant had joined again
StaleSocket == "stale"
ClosedLate == "closed late"
NoHostSocket == 0
\* timer handles: null, a handle whose timer was cleared or has fired, or a live id
NoHandle == 0
DeadHandle == 0 - 1
\* a null timestamp: JavaScript coerces it to 0 in `Date.now() - null`
NullTime == 0
Code == "QUIZ01"
NoCode == "none"

Pids == 1..MaxParticipants
Options == {"a", "c"}
Statuses == {"lobby", "in-progress", "paused", "completed", "interrupted"}

\* The quiz snapshot: odd questions have one correct option, even ones two.
QuestionMarks == 1

QuestionOptions ==
    <<[option_id |-> "a", text |-> "first"],
      [option_id |-> "b", text |-> "second"],
      [option_id |-> "c", text |-> "third"]>>

QuizQuestion(i) ==
    [question_id |-> i,
     type |-> IF i % 2 = 1 THEN "single_choice" ELSE "multiple_choice",
     question_text |-> "question",
     image |-> Null,
     options |-> QuestionOptions,
     correct_answers |-> IF i % 2 = 1 THEN {"a"} ELSE {"a", "b"},
     marks |-> QuestionMarks,
     explanation |-> "because"]

Quiz(n) == [i \in 1..n |-> QuizQuestion(i)]

\* The quizzes a session is created from: one without questions, a short one
\* that refuses late joins, and a full one that allows them.
QuizConfigs ==
    { [n |-> 0, allowLateJoin |-> FALSE],
      [n |-> MaxQuestions - 1, allowLateJoin |-> FALSE],
      [n |-> MaxQuestions, allowLateJoin |-> TRUE] }

\* The durable store as far as it mirrors participants: no document, no
\* write under way.  The handlers never read it back.
NoStore == [docs |-> << >>, pending |-> << >>]

\* generateSessionCode: the alphabet of a code and its length
chars == <<"A", "B", "C", "D", "E", "F", "G", "H", "J", "K", "L", "M", "N", "P",
           "Q", "R", "S", "T", "U", "V", "W", "X", "Y", "Z", "2", "3", "4", "5",
           "6", "7", "8", "9">>
CodeLength == 6

\* generateUniqueSessionCode gives up when attempts exceeds this
MaxAttempts == 100

\* the characters Math.random() selects in the runs checked
DrawnChars == {"A", "9"}

\* let code; before the first draw
NotDrawn == << >>

\* no call of generateUniqueSessionCode under way
NoCall == [code |-> NotDrawn, attempts |-> 0, outcome |-> "idle"]

VARIABLES
    activeSessions,  \* the Map of live sessions: code -> session object
    sessionOrder,    \* the codes of that Map in its iteration (insertion) order
    now,             \* Date.now() - EpochMs, re-based at the last questionStartTime
    questionTimers,  \* live setTimeout handles of handleQuestionEnd: handle -> ms left
    graceTimers,     \* live setTimeout handles of the admin-disconnect callback
    completeTimers,  \* pending setTimeout(handleQuizComplete, 5000) callbacks
    removeTimers,    \* pending setTimeout(removeSession, ...) callbacks
    sock,            \* each client's socket: [id, oderId (socket.oderId is set)]
    hostSock,        \* the host's current socket id, NoHostSocket when disconnected
    nextPending,     \* question:next handlers awaiting their durable write
    joinPending,     \* per client: the session:join awaiting its durable write
    completePending, \* handleQuizComplete runs awaiting, by caller
    gracePending,    \* grace callbacks awaiting their durable write
    questionEnded,   \* question:end was broadcast for question currentQuestionIndex
    accepted,        \* per client: the question indices it had an answer accepted for
    emitted,         \* session-level events broadcast to the room of Code
    store,           \* the participant documents and the writes not yet applied
    staleSockets,    \* per client: the connection its current one has replaced
    uniqueCode,      \* the call of generateUniqueSessionCode: [code, attempts, outcome]
    reply            \* acknowledgement sent by the step just taken

vars == <<activeSessions, sessionOrder, now, questionTimers, graceTimers, completeTimers,
          removeTimers, sock, hostSock, nextPending,
          joinPending, completePending, gracePending, questionEnded, accepted,
          emitted, store, staleSockets, uniqueCode, reply>>

NoReply == [cmd |-> "none", from |-> 0, result |-> "none"]
Host == 0
Ack(cmd, from, result) == [cmd |-> cmd, from |-> from, result |-> result]

\* ------------------------------------------------------------ JS helpers
Min(a, b) == IF a < b THEN a ELSE b
Max(a, b) == IF a > b THEN a ELSE b

\* a rounding that truncates instead
MathRound_Truncates(num, den) == num \div den

\* Math.round(num / den) for den > 0: the nearest integer, halves up.
MathRound(num, den) == (2 * num + den) \div (2 * den)

\* clearTimeout(handle) on a set of live handles
ClearTimeout(live, handle) == live \ {handle}

\* clearTimeout(handle) on the live question timers
ClearTimer(timers, handle) ==
    [h \in DOMAIN timers \ {handle} |-> timers[h]]

DateNow == EpochMs + now

\* setTimeout returns a handle no live timer has
FreshHandle(live) == CHOOSE h \in 1..(Cardinality(live) + 1) : h \notin live

\* `if (session.questionTimer)`: a cleared or fired handle is still truthy
Truthy(handle) == handle # NoHandle

\* the handle as the session holds it once its timer is no longer live
Killed(handle) == IF Truthy(handle) THEN DeadHandle ELSE handle

\* ------------------------------------------------------- session manager
createSession(adminSocketId, questions, allowLateJoin) ==
    [ adminSocketId |-> adminSocketId,
      questions |-> questions,
      currentQuestionIndex |-> -1,
      questionStartTime |-> NullTime,
      timePerQuestion |-> TimePerQuestion,
      status |-> "lobby",
      basePointsPerQuestion |-> BasePointsPerQuestion,
      speedBonusMax |-> SpeedBonusMax,
      allowLateJoin |-> allowLateJoin,
      participants |-> << >>,
      questionTimer |-> NoHandle,
      adminDisconnectTimer |-> NoHandle ]

\* The display name a client sends with session:join.  Names are only ever
\* compared (localeCompare), so a name is modelled by its collation rank.
UserName(oderId) == oderId

addParticipant(s, oderId, socketId) ==
    [s EXCEPT !.participants =
        [q \in DOMAIN s.participants \cup {oderId} |->
            IF q = oderId
            THEN [ userName |-> UserName(oderId),
                   socketId |-> socketId,
                   score |-> 0,
                   correctAnswers |-> 0,
                   totalAnswered |-> 0,
                   currentAnswer |-> Null,
                   hasAnsweredCurrent |-> FALSE,
                   isConnected |-> TRUE ]
            ELSE s.participants[q]]]

\* a reconnect that re-initialises the participant's per-question answer state
updateParticipantConnection_ResetsAnswer(s, oderId, isConnected, socketId) ==
    IF oderId \notin DOMAIN s.participants THEN s
    ELSE [s EXCEPT !.participants[oderId] =
            [@ EXCEPT !.isConnected = isConnected,
                      !.socketId = IF socketId # NoSocket THEN socketId ELSE @,
                      !.hasAnsweredCurrent = IF isConnected THEN FALSE ELSE @]]

\* a reconnect that registers the participant afresh
updateParticipantConnection_AddsAgain(s, oderId, isConnected, socketId) ==
    IF oderId \notin DOMAIN s.participants THEN s
    ELSE IF isConnected THEN addParticipant(s, oderId, socketId)
    ELSE [s EXCEPT !.participants[oderId] =
            [@ EXCEPT !.isConnected = isConnected,
                      !.socketId = IF socketId # NoSocket THEN socketId ELSE @]]

\* a reconnect that keeps the connection identity of the socket that left
updateParticipantConnection_KeepsSocket(s, oderId, isConnected, socketId) ==
    IF oderId \notin DOMAIN s.participants THEN s
    ELSE [s EXCEPT !.participants[oderId] = [@ EXCEPT !.isConnected = isConnected]]

\* a session manager that drops the entry of a participant who went away
updateParticipantConnection_ForgetsLeaver(s, oderId, isConnected, socketId) ==
    IF oderId \notin DOMAIN s.participants THEN s
    ELSE IF ~isConnected
    THEN [s EXCEPT !.participants =
            [q \in DOMAIN s.participants \ {oderId} |-> s.participants[q]]]
    ELSE [s EXCEPT !.participants[oderId] =
            [@ EXCEPT !.isConnected = isConnected,
                      !.socketId = IF socketId # NoSocket THEN socketId ELSE @]]

updateParticipantConnection(s, oderId, isConnected, socketId) ==
    IF oderId \notin DOMAIN s.participants THEN s
    ELSE [s EXCEPT !.participants[oderId] =
            [@ EXCEPT !.isConnected = isConnected,
                      !.socketId = IF socketId # NoSocket THEN socketId ELSE @]]

\* questions[] is 0-based in the source, 1-based here
HasQuestion(s, index) == index + 1 \in DOMAIN s.questions
QuestionAt(s, index) == s.questions[index + 1]

TimeLimitMs(s) == s.timePerQuestion * MsPerSecond

\* Date.now() - session.questionStartTime; null coerces to 0
ResponseTimeMs(s, t) == t - s.questionStartTime

\* a lateness check that also refuses an answer exactly at the tolerance
IsLate_AtTolerance(responseTimeMs, timeLimit) ==
    responseTimeMs >= timeLimit + SkewToleranceMs

IsLate(responseTimeMs, timeLimit) == responseTimeMs > timeLimit + SkewToleranceMs

IsCorrect(question, selectedOption) == selectedOption \in question.correct_answers

\* Inputs <<responseTimeMs, timeLimit, speedBonusMax>> whose exact product
\* (1 - responseTimeMs/timeLimit) * speedBonusMax is halfway between two
\* integers and whose double-precision product falls just below it, so that
\* Math.round gives the lower one: (1 - 550/1000) * 50 = 22.499999999999996.
RoundsBelowTie ==
    { <<550, 1000, 50>>, <<1100, 2000, 50>>, <<16500, 30000, 50>> }

\* a speed bonus that is not clamped at 0
SpeedBonus_Unclamped(responseTimeMs, timeLimit, speedBonusMax) ==
    MathRound((timeLimit - responseTimeMs) * speedBonusMax, timeLimit)

SpeedBonus(responseTimeMs, timeLimit, speedBonusMax) ==
    LET exact == MathRound((timeLimit - responseTimeMs) * speedBonusMax, timeLimit)
        speedBonus ==
            IF <<responseTimeMs, timeLimit, speedBonusMax>> \in RoundsBelowTie
            THEN exact - 1 ELSE exact
    IN  IF speedBonus < 0 THEN 0 ELSE speedBonus

\* a scoring rule that pays the speed bonus for a wrong answer too
PointsAwarded_BonusWhenWrong(s, isCorrect, responseTimeMs) ==
    (IF isCorrect THEN s.basePointsPerQuestion ELSE 0)
    + SpeedBonus(responseTimeMs, TimeLimitMs(s), s.speedBonusMax)

PointsAwarded(s, isCorrect, responseTimeMs) ==
    IF isCorrect
    THEN s.basePointsPerQuestion
         + SpeedBonus(responseTimeMs, TimeLimitMs(s), s.speedBonusMax)
    ELSE 0

\* recordAnswer: the error it returns, or "ok"
recordAnswerResult(s, oderId, t) ==
    IF oderId \notin DOMAIN s.participants THEN "participant_not_found"
    ELSE IF s.participants[oderId].hasAnsweredCurrent THEN "already_answered"
    ELSE IF IsLate(ResponseTimeMs(s, t), TimeLimitMs(s)) THEN "time_expired"
    ELSE IF ~HasQuestion(s, s.currentQuestionIndex) THEN "question_not_found"
    ELSE "ok"

\* recordAnswer: the session after an accepted answer
recordAnswer(s, oderId, selectedOption, t) ==
    LET question == QuestionAt(s, s.currentQuestionIndex)
        isCorrect == IsCorrect(question, selectedOption)
        pointsAwarded == PointsAwarded(s, isCorrect, ResponseTimeMs(s, t))
    IN  [s EXCEPT !.participants[oderId] =
            [@ EXCEPT !.hasAnsweredCurrent = TRUE,
                      !.currentAnswer = selectedOption,
                      !.score = @ + pointsAwarded,
                      !.totalAnswered = @ + 1,
                      !.correctAnswers = IF isCorrect THEN @ + 1 ELSE @]]

\* recordAnswer: what it returns for an accepted answer
recordAnswerReturn(s, oderId, selectedOption, t) ==
    LET question == QuestionAt(s, s.currentQuestionIndex)
        isCorrect == IsCorrect(question, selectedOption)
        responseTimeMs == ResponseTimeMs(s, t)
        pointsAwarded == PointsAwarded(s, isCorrect, responseTimeMs)
    IN  [success |-> TRUE,
         isCorrect |-> isCorrect,
         pointsAwarded |-> pointsAwarded,
         speedBonus |-> IF isCorrect
                        THEN pointsAwarded - s.basePointsPerQuestion ELSE 0,
         responseTimeMs |-> responseTimeMs,
         newScore |-> s.participants[oderId].score + pointsAwarded]

\* advanceQuestion, the session fields; the caller clears the timer and re-bases
\* the clock, so that Date.now() is EpochMs at this instant
advanceQuestion(s) ==
    [s EXCEPT !.questionTimer = NoHandle,
              !.participants =
                  [q \in DOMAIN s.participants |->
                      [s.participants[q] EXCEPT !.hasAnsweredCurrent = FALSE,
                                                !.currentAnswer = Null]],
              !.currentQuestionIndex = @ + 1,
              !.questionStartTime = EpochMs,
              !.status = IF s.currentQuestionIndex + 1 = 0
                         THEN "in-progress" ELSE @]

\* a comparator that leaves out the correctAnswers tie-break
Before_SkipsCorrectAnswers(a, b) ==
    \/ a.score > b.score
    \/ a.score = b.score /\ a.userName < b.userName

\* getLeaderboard's comparator is negative: a sorts before b
Before(a, b) ==
    \/ a.score > b.score
    \/ a.score = b.score /\ a.correctAnswers > b.correctAnswers
    \/ a.score = b.score /\ a.correctAnswers = b.correctAnswers
          /\ a.userName < b.userName

\* Array.prototype.sort is stable: x, which followed every element of the
\* sorted `seq` in the array, goes in front of the first one it sorts before
InsertSorted(seq, x) ==
    LET later == {i \in 1..Len(seq) : Before(x, seq[i])}
        at == IF later = {} THEN Len(seq) + 1
              ELSE CHOOSE i \in later : \A j \in later : i <= j
    IN  SubSeq(seq, 1, at - 1) \o <<x>> \o SubSeq(seq, at, Len(seq))

RECURSIVE SortParticipants(_)
SortParticipants(seq) ==
    IF seq = << >> THEN << >>
    ELSE InsertSorted(SortParticipants(SubSeq(seq, 1, Len(seq) - 1)),
                      seq[Len(seq)])

\* Array.from(session.participants.values()): the entries in the order they
\* were inserted, which is taken to be the order of the ids
RECURSIVE ParticipantValues(_, _)
ParticipantValues(s, ids) ==
    IF ids = {} THEN << >>
    ELSE LET last == CHOOSE p \in ids : \A q \in ids : q <= p
         IN  Append(ParticipantValues(s, ids \ {last}),
                    [oderId |-> last] @@ s.participants[last])

getLeaderboard(s, limit) ==
    LET sorted == SortParticipants(ParticipantValues(s, DOMAIN s.participants))
    IN  [index \in 1..Min(limit, Len(sorted)) |->
            [ rank |-> index,
              oderId |-> sorted[index].oderId,
              userName |-> sorted[index].userName,
              score |-> sorted[index].score,
              correctAnswers |-> sorted[index].correctAnswers,
              totalAnswered |-> sorted[index].totalAnswered ]]

\* endSession, the session fields: both handles are cleared, none is nulled
endSession(s) ==
    [s EXCEPT !.questionTimer = Killed(@),
              !.adminDisconnectTimer = Killed(@),
              !.status = "completed"]

\* clearQuestionTimer, the session field
clearQuestionTimer(s) == [s EXCEPT !.questionTimer = NoHandle]

IsLastQuestion(s) == s.currentQuestionIndex >= Len(s.questions) - 1

MaxLatency == TimePerQuestion * MsPerSecond + SkewToleranceMs + TickMs

HasSession == Code \in DOMAIN activeSessions
Session == activeSessions[Code]
\* a registry that holds the session of Code alone
OnlySession(s) == [c \in {Code} |-> s]

\* the registry once the session object of Code is `s`
SetSession(s) ==
    [c \in DOMAIN activeSessions \cup {Code} |->
        IF c = Code THEN s ELSE activeSessions[c]]

\* activeSessions.delete(code): the registry and its iteration order
Deleted(sessions, code) == [c \in DOMAIN sessions \ {code} |-> sessions[c]]
Without(order, code) == SelectSeq(order, LAMBDA c : c # code)
\* no session:join of the client is suspended at its await
NoJoin == << >>

\* ------------------------------------------------------------------ Init
Init ==
    /\ \E c \in QuizConfigs :
          activeSessions =
              OnlySession(createSession(FirstSocketId, Quiz(c.n), c.allowLateJoin))
    /\ sessionOrder = <<Code>>
    /\ store = NoStore
    /\ staleSockets = [p \in Pids |-> NoSocket]
    /\ uniqueCode = NoCall
    /\ now = 0
    /\ questionTimers = << >>
    /\ graceTimers = {}
    /\ completeTimers = 0
    /\ removeTimers = 0
    /\ sock = [p \in Pids |-> [id |-> NoSocket, oderId |-> FALSE]]
    /\ hostSock = FirstSocketId
    /\ nextPending = 0
    /\ joinPending = [p \in Pids |-> NoJoin]
    /\ completePending = [c \in {"cmd", "timer"} |-> 0]
    /\ gracePending = 0
    /\ questionEnded = FALSE
    /\ accepted = [p \in Pids |-> {}]
    /\ emitted = {}
    /\ reply = NoReply

RECURSIVE JoinsPending(_)
JoinsPending(ps) ==
    IF ps = {} THEN 0
    ELSE LET p == CHOOSE q \in ps : TRUE
         IN  Len(joinPending[p]) + JoinsPending(ps \ {p})

\* handlers suspended at an await on a durable write
Inflight ==
    nextPending + gracePending + completePending["cmd"] + completePending["timer"]
    + JoinsPending(Pids)

\* A handler that is going to await is admitted while fewer than MaxInflight
\* are suspended; question:next is always admitted (each one advances the
\* index, so at most as many as the quiz has questions are ever suspended).
MayAwait == Inflight < MaxInflight

\* ------------------------------------------------------------------ time
Started == HasSession /\ Session.questionStartTime # NullTime

Tick ==
    /\ \/ Started /\ now < MaxLatency
       \/ \E h \in DOMAIN questionTimers : questionTimers[h] > 0
    /\ now' = IF Started THEN Min(now + TickMs, MaxLatency) ELSE now
    /\ questionTimers' =
          [h \in DOMAIN questionTimers |-> Max(0, questionTimers[h] - TickMs)]
    /\ reply' = NoReply
    /\ UNCHANGED <<uniqueCode, staleSockets, store, sessionOrder, accepted, activeSessions, graceTimers, completeTimers, removeTimers,
                   sock, hostSock, nextPending, joinPending,
                   completePending, gracePending, questionEnded, emitted>>

\* ---------------------------------------------------------- participants
\* quizNsp.on('connection'): a client opens a socket; no session is touched
Connect(p) ==
    /\ sock[p].id = NoSocket
    /\ sock' = [sock EXCEPT ![p] = [id |-> OpenSocket, oderId |-> FALSE]]
    /\ reply' = NoReply
    /\ UNCHANGED <<uniqueCode, staleSockets, store, sessionOrder, accepted, activeSessions, now, questionTimers, graceTimers,
                   completeTimers, removeTimers, hostSock,
                   nextPending, joinPending, completePending, gracePending,
                   questionEnded, emitted>>

\* joinability checks without the late-join restriction
JoinError_AdmitsLateJoin ==
    IF ~HasSession THEN "session_not_found"
    ELSE IF Session.status \in {"completed", "interrupted"} THEN "session_ended"
    ELSE "none"

JoinError ==
    IF ~HasSession THEN "session_not_found"
    ELSE IF Session.status \in {"completed", "interrupted"} THEN "session_ended"
    ELSE IF Session.status = "in-progress" /\ ~Session.allowLateJoin
         THEN "late_join_not_allowed"
    ELSE "none"

\* socket.on('session:join'), up to its await; several joins of one client
\* may be suspended at once, at most MaxJoins of them
sessionJoin(p) ==
    /\ sock[p].id # NoSocket
    /\ JoinError = "none" => Len(joinPending[p]) < MaxJoins
    /\ IF JoinError # "none"
       THEN /\ reply' = Ack("session:join", p, JoinError)
            /\ UNCHANGED <<activeSessions, joinPending>>
       ELSE /\ reply' = NoReply
            /\ IF p \in DOMAIN Session.participants
               THEN /\ activeSessions' = SetSession(
                          updateParticipantConnection(Session, p, TRUE, sock[p].id))
                    /\ joinPending' = [joinPending EXCEPT ![p] =
                          Append(@, [sock |-> sock[p].id, kind |-> "reconnect"])]
               ELSE /\ activeSessions' = SetSession(
                          addParticipant(Session, p, sock[p].id))
                    /\ joinPending' = [joinPending EXCEPT ![p] =
                          Append(@, [sock |-> sock[p].id, kind |-> "new"])]
    /\ UNCHANGED <<uniqueCode, staleSockets, store, sessionOrder, accepted, now, questionTimers, graceTimers, completeTimers,
                   removeTimers, sock, hostSock, nextPending,
                   completePending, gracePending, questionEnded, emitted>>

\* session:join among the handlers of which at most MaxInflight are suspended
Join(p) ==
    /\ JoinError = "none" => MayAwait
    /\ sessionJoin(p)

\* socket.on('session:join'), after its await: the write succeeded or threw;
\* writes complete in any order
JoinResume(p, ok) ==
    \E i \in DOMAIN joinPending[p] :
        LET join == joinPending[p][i]
        IN  /\ joinPending' = [joinPending EXCEPT ![p] =
                  SubSeq(@, 1, i - 1) \o SubSeq(@, i + 1, Len(@))]
            /\ sock' = IF ok /\ sock[p].id = join.sock
                       THEN [sock EXCEPT ![p].oderId = TRUE] ELSE sock
            /\ reply' = IF ~ok THEN Ack("session:join", p, "failed")
                        ELSE IF join.kind = "reconnect"
                             THEN Ack("session:join", p, "reconnected")
                             ELSE Ack("session:join", p, "ok")
            /\ UNCHANGED <<uniqueCode, staleSockets, store, sessionOrder, accepted, activeSessions, now, questionTimers,
                           graceTimers, completeTimers, removeTimers, hostSock,
                           nextPending, completePending, gracePending,
                           questionEnded, emitted>>

\* ------------------------------------------------- what participants are sent
\* question.options.map(o => ({ option_id: o.option_id, text: o.text }))
PublicOptions(question) ==
    [k \in DOMAIN question.options |->
        [option_id |-> question.options[k].option_id,
         text |-> question.options[k].text]]

\* a question:start payload that passes the whole question on
questionData_WholeQuestion(s) ==
    LET question == QuestionAt(s, s.currentQuestionIndex)
    IN  [index |-> s.currentQuestionIndex,
         total |-> Len(s.questions),
         question_id |-> question.question_id,
         question_text |-> question.question_text,
         type |-> question.type,
         image |-> question.image,
         options |-> PublicOptions(question),
         timeLimit |-> s.timePerQuestion,
         marks |-> question.marks,
         correct_answers |-> question.correct_answers,
         explanation |-> question.explanation]

\* question:next: the question:start payload broadcast to the session room
questionData(s) ==
    LET question == QuestionAt(s, s.currentQuestionIndex)
    IN  [index |-> s.currentQuestionIndex,
         total |-> Len(s.questions),
         question_id |-> question.question_id,
         question_text |-> question.question_text,
         type |-> question.type,
         image |-> question.image,
         options |-> PublicOptions(question),
         timeLimit |-> s.timePerQuestion,
         marks |-> question.marks]

\* question:next: the question:admin-info payload, sent to the admin room only
adminInfo(s) ==
    LET question == QuestionAt(s, s.currentQuestionIndex)
    IN  [correctAnswers |-> question.correct_answers,
         explanation |-> question.explanation]

\* a remaining time rounded down to whole seconds
TimeRemaining_RoundsDown(s, t) ==
    LET timeRemaining == IF TimeLimitMs(s) - ResponseTimeMs(s, t) > 0
                         THEN TimeLimitMs(s) - ResponseTimeMs(s, t) ELSE 0
    IN  timeRemaining \div MsPerSecond

\* Math.ceil(Math.max(0, timePerQuestion * 1000 - timeElapsed) / 1000)
TimeRemaining(s, t) ==
    LET timeRemaining == IF TimeLimitMs(s) - ResponseTimeMs(s, t) > 0
                         THEN TimeLimitMs(s) - ResponseTimeMs(s, t) ELSE 0
    IN  (timeRemaining + MsPerSecond - 1) \div MsPerSecond

\* session:join of a registered id: whether the reply carries the question
ResyncsQuestion(s) ==
    /\ s.status = "in-progress"
    /\ s.currentQuestionIndex >= 0
    /\ HasQuestion(s, s.currentQuestionIndex)

\* session:join of a registered id: resyncData.currentQuestion
currentQuestion(s, t) ==
    LET question == QuestionAt(s, s.currentQuestionIndex)
    IN  [index |-> s.currentQuestionIndex,
         question_id |-> question.question_id,
         question_text |-> question.question_text,
         image |-> question.image,
         options |-> PublicOptions(question),
         timeRemaining |-> TimeRemaining(s, t)]

\* session:join of a registered id: the reply
resyncData(s, oderId, t) ==
    IF ResyncsQuestion(s)
    THEN [success |-> TRUE,
          reconnected |-> TRUE,
          participantCount |-> Cardinality(DOMAIN s.participants),
          status |-> s.status,
          currentQuestionIndex |-> s.currentQuestionIndex,
          totalQuestions |-> Len(s.questions),
          yourScore |-> s.participants[oderId].score,
          timePerQuestion |-> s.timePerQuestion,
          currentQuestion |-> currentQuestion(s, t),
          hasAnswered |-> s.participants[oderId].hasAnsweredCurrent]
    ELSE [success |-> TRUE,
          reconnected |-> TRUE,
          participantCount |-> Cardinality(DOMAIN s.participants),
          status |-> s.status,
          currentQuestionIndex |-> s.currentQuestionIndex,
          totalQuestions |-> Len(s.questions),
          yourScore |-> s.participants[oderId].score,
          timePerQuestion |-> s.timePerQuestion]

\* session:join of a new id: the reply
joinData(s) ==
    [success |-> TRUE,
     participantCount |-> Cardinality(DOMAIN s.participants),
     participants |-> {[oderId |-> q, userName |-> s.participants[q].userName] :
                          q \in DOMAIN s.participants},
     status |-> s.status,
     totalQuestions |-> Len(s.questions),
     timePerQuestion |-> s.timePerQuestion]

\* `object.field || 0`
OrZero(object, field) == IF field \in DOMAIN object THEN object[field] ELSE 0

\* `participant.lastAnswerResult || {}`
LastAnswerResult(participant) ==
    IF "lastAnswerResult" \in DOMAIN participant
    THEN participant.lastAnswerResult ELSE << >>

\* leaderboard.findIndex(l => l.oderId === oderId) + 1 || participants.length
YourRank(s, oderId) ==
    LET leaderboard == getLeaderboard(s, QuestionEndLeaderboardSize)
        found == {i \in DOMAIN leaderboard : leaderboard[i].oderId = oderId}
    IN  IF found = {} THEN Cardinality(DOMAIN s.participants)
        ELSE CHOOSE i \in found : \A j \in found : i <= j

\* handleQuestionEnd: the question:personal-result sent to a participant
personalResult(s, oderId) ==
    LET question == QuestionAt(s, s.currentQuestionIndex)
        participant == s.participants[oderId]
        lastResult == LastAnswerResult(participant)
    IN  [wasCorrect |-> participant.currentAnswer \in question.correct_answers,
         yourAnswer |-> participant.currentAnswer,
         pointsEarned |-> OrZero(lastResult, "pointsAwarded"),
         basePoints |-> OrZero(lastResult, "basePoints"),
         speedBonus |-> OrZero(lastResult, "speedBonus"),
         yourScore |-> participant.score,
         yourRank |-> YourRank(s, oderId)]

\* an acknowledgement that passes on what recordAnswer returned
answerAck_PassesResult(result) == result

\* answer:submit: the acknowledgement of an accepted answer
answerAck(result) == [success |-> TRUE, acknowledged |-> TRUE]

\* socket.on('session:leave')
Leave(p) ==
    /\ sock[p].id # NoSocket
    /\ sock[p].oderId
    /\ activeSessions' =
          IF HasSession
          THEN SetSession(updateParticipantConnection(Session, p, FALSE, NoSocket))
          ELSE activeSessions
    /\ reply' = NoReply
    /\ UNCHANGED <<uniqueCode, staleSockets, store, sessionOrder, accepted, now, questionTimers, graceTimers, completeTimers,
                   removeTimers, sock, hostSock, nextPending,
                   joinPending, completePending, gracePending, questionEnded, emitted>>

\* a lookup by the client instead of by the socket's id
findParticipantBySocket_ByClient(p, socketId) ==
    /\ HasSession
    /\ p \in DOMAIN Session.participants

\* findParticipantBySocket for a socket of client p
findParticipantBySocket(p, socketId) ==
    /\ HasSession
    /\ p \in DOMAIN Session.participants
    /\ Session.participants[p].socketId = socketId

\* the id of a socket that has closed no longer names the client's open socket
CloseSocket(s, p) ==
    IF p \in DOMAIN s.participants
    THEN [s EXCEPT !.participants[p].socketId = ClosedSocket]
    ELSE s

\* socket.on('disconnect') for a participant's socket
Disconnect(p) ==
    /\ sock[p].id # NoSocket
    /\ activeSessions' =
          IF ~HasSession THEN activeSessions
          ELSE IF findParticipantBySocket(p, sock[p].id)
          THEN SetSession(CloseSocket(
                  updateParticipantConnection(Session, p, FALSE, NoSocket), p))
          ELSE activeSessions
    /\ sock' = [sock EXCEPT ![p] = [id |-> NoSocket, oderId |-> FALSE]]
    /\ joinPending' = [joinPending EXCEPT ![p] =
          [i \in DOMAIN @ |-> [@[i] EXCEPT !.sock = ClosedSocket]]]
    /\ reply' = NoReply
    /\ UNCHANGED <<uniqueCode, staleSockets, store, sessionOrder, accepted, now, questionTimers, graceTimers, completeTimers,
                   removeTimers, hostSock, nextPending,
                   completePending, gracePending, questionEnded, emitted>>

\* a handler that does not compare the answer's question index
SubmitResult_IgnoresIndex(p, questionIndex) ==
    IF ~sock[p].oderId THEN "not_authenticated"
    ELSE IF ~HasSession THEN "session_not_found"
    ELSE recordAnswerResult(Session, p, DateNow)

SubmitResult(p, questionIndex) ==
    IF ~sock[p].oderId THEN "not_authenticated"
    ELSE IF ~HasSession THEN "session_not_found"
    ELSE IF Session.currentQuestionIndex # questionIndex THEN "question_changed"
    ELSE recordAnswerResult(Session, p, DateNow)

\* socket.on('answer:submit'), all but its durable writes, which are not awaited
answerSubmit(p, questionIndex, selectedOption) ==
    /\ sock[p].id # NoSocket
    /\ reply' = Ack("answer:submit", p, SubmitResult(p, questionIndex))
    /\ activeSessions' =
          IF SubmitResult(p, questionIndex) = "ok"
          THEN SetSession(recordAnswer(Session, p, selectedOption, DateNow))
          ELSE activeSessions
    /\ accepted' =
          IF SubmitResult(p, questionIndex) = "ok"
          THEN [accepted EXCEPT ![p] = @ \cup {questionIndex}]
          ELSE accepted
    /\ UNCHANGED <<uniqueCode, staleSockets, sessionOrder, now, questionTimers, graceTimers, completeTimers,
                   removeTimers, sock, hostSock, nextPending,
                   joinPending, completePending, gracePending, questionEnded, emitted>>

\* socket.on('answer:submit') with the store left aside
AnswerSubmit(p, questionIndex, selectedOption) ==
    answerSubmit(p, questionIndex, selectedOption) /\ UNCHANGED store

\* ----------------------------------------------------- question lifecycle
\* handleQuestionEnd: it returns early without a session or a current
\* question, else broadcasts question:end and, after the last question,
\* schedules handleQuizComplete.  It never awaits.
QuestionEnds == HasSession /\ HasQuestion(Session, Session.currentQuestionIndex)

handleQuestionEnd ==
    /\ questionEnded' = (QuestionEnds \/ questionEnded)
    /\ completeTimers' = IF QuestionEnds /\ IsLastQuestion(Session)
                         THEN completeTimers + 1 ELSE completeTimers

\* handleQuizComplete up to its first await, called by `caller`
handleQuizComplete(caller) ==
    IF ~HasSession \/ Session.status = "completed"
    THEN UNCHANGED <<activeSessions, questionTimers, graceTimers, emitted,
                     completePending, removeTimers>>
    ELSE /\ activeSessions' = SetSession(endSession(Session))
         /\ questionTimers' = ClearTimer(questionTimers, Session.questionTimer)
         /\ graceTimers' = ClearTimeout(graceTimers, Session.adminDisconnectTimer)
         /\ emitted' = emitted \cup {"quiz:complete"}
         /\ IF DOMAIN Session.participants # {}
            THEN /\ completePending' = [completePending EXCEPT ![caller] = @ + 1]
                 /\ UNCHANGED removeTimers
            ELSE /\ removeTimers' = removeTimers + 1
                 /\ UNCHANGED completePending

\* whether handleQuizComplete(caller) returns without awaiting
CompletesAtOnce ==
    \/ ~HasSession
    \/ Session.status = "completed"
    \/ DOMAIN Session.participants = {}

\* host-command checks that let any connection command the session
HostCommandError_AnyoneCommands ==
    IF ~HasSession THEN "session_not_found" ELSE "none"

HostCommandError ==
    IF ~HasSession THEN "session_not_found"
    ELSE IF Session.adminSocketId # hostSock THEN "not_admin"
    ELSE "none"

\* a last-question check that is off by one
NoMoreQuestions_OffByOne(s) == s.currentQuestionIndex > Len(s.questions) - 1

\* question:next's check that the quiz has a next question
NoMoreQuestions(s) == s.currentQuestionIndex >= Len(s.questions) - 1

\* socket.on('question:next'), up to its await
QuestionNext ==
    /\ hostSock # NoHostSocket
    /\ IF HostCommandError # "none"
       THEN /\ reply' = Ack("question:next", Host, HostCommandError)
            /\ UNCHANGED <<activeSessions, now, questionTimers, nextPending,
                           questionEnded>>
       ELSE IF NoMoreQuestions(Session)
       THEN /\ reply' = Ack("question:next", Host, "no_more_questions")
            /\ UNCHANGED <<activeSessions, now, questionTimers, nextPending,
                           questionEnded>>
       ELSE /\ questionTimers' = ClearTimer(questionTimers, Session.questionTimer)
            /\ activeSessions' = SetSession(advanceQuestion(Session))
            /\ now' = 0
            /\ questionEnded' = FALSE
            /\ nextPending' = nextPending + 1
            /\ reply' = NoReply
    /\ UNCHANGED <<uniqueCode, staleSockets, store, sessionOrder, accepted, graceTimers, completeTimers, removeTimers, sock,
                   hostSock, joinPending, completePending,
                   gracePending, emitted>>

\* setQuestionTimer: clears the handle the session holds, arms a new timer
setQuestionTimer ==
    IF ~HasSession
    THEN UNCHANGED <<activeSessions, questionTimers>>
    ELSE LET cleared == ClearTimer(questionTimers, Session.questionTimer)
             h == FreshHandle(DOMAIN cleared)
         IN  /\ questionTimers' =
                   [k \in DOMAIN cleared \cup {h} |->
                       IF k = h THEN TimeLimitMs(Session) ELSE cleared[k]]
             /\ activeSessions' = SetSession([Session EXCEPT !.questionTimer = h])

\* socket.on('question:next'), after its await: the write succeeded or threw
QuestionNextResume(ok) ==
    /\ nextPending > 0
    /\ nextPending' = nextPending - 1
    /\ IF ok
       THEN /\ setQuestionTimer
            /\ reply' = Ack("question:next", Host, "ok")
       ELSE /\ reply' = Ack("question:next", Host, "failed")
            /\ UNCHANGED <<activeSessions, questionTimers>>
    /\ UNCHANGED <<uniqueCode, staleSockets, store, sessionOrder, accepted, now, graceTimers, completeTimers, removeTimers, sock,
                   hostSock, joinPending, completePending,
                   gracePending, questionEnded, emitted>>

\* socket.on('question:skip'), all but the durable writes of handleQuestionEnd
questionSkip ==
    /\ hostSock # NoHostSocket
    /\ completeTimers < MaxCompleteTimers
    /\ IF HostCommandError # "none"
       THEN /\ reply' = Ack("question:skip", Host, HostCommandError)
            /\ UNCHANGED <<activeSessions, questionTimers, questionEnded,
                           completeTimers>>
       ELSE /\ questionTimers' = ClearTimer(questionTimers, Session.questionTimer)
            /\ activeSessions' = SetSession(clearQuestionTimer(Session))
            /\ handleQuestionEnd
            /\ reply' = Ack("question:skip", Host, "ok")
    /\ UNCHANGED <<uniqueCode, staleSockets, sessionOrder, accepted, now, graceTimers, removeTimers, sock, hostSock,
                   nextPending, joinPending, completePending,
                   gracePending, emitted>>

\* socket.on('question:skip') with the store left aside
QuestionSkip ==
    questionSkip /\ UNCHANGED store

\* the question timer's callback: handleQuestionEnd, all but its durable writes
questionTimerFire(h) ==
    /\ h \in DOMAIN questionTimers
    /\ questionTimers[h] = 0
    /\ questionTimers' = ClearTimer(questionTimers, h)
    /\ activeSessions' =
          IF HasSession /\ Session.questionTimer = h
          THEN SetSession([Session EXCEPT !.questionTimer = DeadHandle])
          ELSE activeSessions
    /\ handleQuestionEnd
    /\ reply' = NoReply
    /\ UNCHANGED <<uniqueCode, staleSockets, sessionOrder, accepted, now, graceTimers, removeTimers, sock, hostSock,
                   nextPending, joinPending, completePending,
                   gracePending, emitted>>

\* the question timer's callback with the store left aside
QuestionTimerFire(h) ==
    questionTimerFire(h) /\ UNCHANGED store

\* socket.on('session:end'), up to the first await of handleQuizComplete
SessionEnd ==
    /\ hostSock # NoHostSocket
    /\ (HostCommandError = "none" /\ ~CompletesAtOnce) => MayAwait
    /\ IF HostCommandError # "none"
       THEN /\ reply' = Ack("session:end", Host, HostCommandError)
            /\ UNCHANGED <<activeSessions, questionTimers, graceTimers,
                           emitted, completePending, removeTimers>>
       ELSE /\ handleQuizComplete("cmd")
            /\ reply' = IF CompletesAtOnce
                        THEN Ack("session:end", Host, "ok") ELSE NoReply
    /\ UNCHANGED <<uniqueCode, staleSockets, store, sessionOrder, accepted, now, completeTimers, sock, hostSock,
                   nextPending, joinPending, gracePending, questionEnded>>

\* the 5 s timer armed by handleQuestionEnd after the last question
CompleteTimerFire ==
    /\ completeTimers > 0
    /\ ~CompletesAtOnce => MayAwait
    /\ completeTimers' = completeTimers - 1
    /\ handleQuizComplete("timer")
    /\ reply' = NoReply
    /\ UNCHANGED <<uniqueCode, staleSockets, store, sessionOrder, accepted, now, sock, hostSock, nextPending,
                   joinPending, gracePending, questionEnded>>

\* handleQuizComplete after its awaits: the removal is scheduled
CompleteResume(caller) ==
    /\ completePending[caller] > 0
    /\ completePending' = [completePending EXCEPT ![caller] = @ - 1]
    /\ removeTimers' = removeTimers + 1
    /\ reply' = IF caller = "cmd" THEN Ack("session:end", Host, "ok") ELSE NoReply
    /\ UNCHANGED <<uniqueCode, staleSockets, store, sessionOrder, accepted, activeSessions, now, questionTimers, graceTimers,
                   completeTimers, sock, hostSock,
                   nextPending, joinPending, gracePending, questionEnded, emitted>>

\* the removal timer's callback: removeSession
RemoveTimerFire ==
    /\ removeTimers > 0
    /\ removeTimers' = removeTimers - 1
    /\ IF HasSession
       THEN /\ questionTimers' = ClearTimer(questionTimers, Session.questionTimer)
            /\ graceTimers' = ClearTimeout(graceTimers, Session.adminDisconnectTimer)
       ELSE UNCHANGED <<questionTimers, graceTimers>>
    /\ activeSessions' = Deleted(activeSessions, Code)
    /\ sessionOrder' = Without(sessionOrder, Code)
    /\ reply' = NoReply
    /\ UNCHANGED <<uniqueCode, staleSockets, store, accepted, now, completeTimers, sock, hostSock,
                   nextPending, joinPending, completePending, gracePending,
                   questionEnded, emitted>>

\* ------------------------------------------------------- host connection
\* findSessionByAdminSocket: the first session, in the Map's iteration
\* order, whose adminSocketId is the socket's id
findSessionByAdminSocket(socketId) ==
    LET owned == {i \in DOMAIN sessionOrder :
                     activeSessions[sessionOrder[i]].adminSocketId = socketId}
    IN  IF owned = {} THEN NoCode
        ELSE sessionOrder[CHOOSE i \in owned : \A j \in owned : i <= j]

\* socket.on('disconnect') for a host socket, up to its await (nothing follows it)
HostDisconnect ==
    /\ hostSock # NoHostSocket
    /\ hostSock' = NoHostSocket
    /\ LET code == findSessionByAdminSocket(hostSock)
       IN  IF code # NoCode /\ activeSessions[code].status = "in-progress"
           THEN LET h == FreshHandle(graceTimers)
                    s == activeSessions[code]
                IN  /\ questionTimers' = ClearTimer(questionTimers, s.questionTimer)
                    /\ activeSessions' = [activeSessions EXCEPT ![code] =
                          [clearQuestionTimer(s) EXCEPT
                              !.status = "paused", !.adminDisconnectTimer = h]]
                    /\ emitted' = IF code = Code
                                  THEN emitted \cup {"session:paused"} ELSE emitted
                    /\ graceTimers' = graceTimers \cup {h}
           ELSE UNCHANGED <<activeSessions, questionTimers, graceTimers, emitted>>
    /\ reply' = NoReply
    /\ UNCHANGED <<uniqueCode, staleSockets, store, sessionOrder, accepted, now, completeTimers, removeTimers, sock,
                   nextPending, joinPending, completePending, gracePending,
                   questionEnded>>

\* quizNsp.on('connection'): the host opens a new socket; no session is touched
HostReconnect ==
    /\ hostSock = NoHostSocket
    /\ hostSock' = LaterSocketId
    /\ reply' = NoReply
    /\ UNCHANGED <<uniqueCode, staleSockets, store, sessionOrder, accepted, activeSessions, now, questionTimers, graceTimers,
                   completeTimers, removeTimers, sock, nextPending,
                   joinPending, completePending, gracePending, questionEnded, emitted>>

\* the grace timer's callback, up to its await
GraceTimerFire(h) ==
    /\ h \in graceTimers
    /\ (HasSession /\ Session.status = "paused") => MayAwait
    /\ graceTimers' = ClearTimeout(graceTimers, h)
    /\ LET s == IF HasSession /\ Session.adminDisconnectTimer = h
                THEN [Session EXCEPT !.adminDisconnectTimer = DeadHandle]
                ELSE Session
       IN  IF HasSession /\ Session.status = "paused"
           THEN /\ activeSessions' = SetSession([s EXCEPT !.status = "interrupted"])
                /\ gracePending' = gracePending + 1
           ELSE /\ activeSessions' = IF HasSession THEN SetSession(s)
                                     ELSE activeSessions
                /\ UNCHANGED gracePending
    /\ reply' = NoReply
    /\ UNCHANGED <<uniqueCode, staleSockets, store, sessionOrder, accepted, now, questionTimers, completeTimers, removeTimers, sock,
                   hostSock, nextPending, joinPending,
                   completePending, questionEnded, emitted>>

\* the grace timer's callback after its await: the write succeeded or threw
GraceResume(ok) ==
    /\ gracePending > 0
    /\ gracePending' = gracePending - 1
    /\ IF ok
       THEN /\ emitted' = emitted \cup {"session:interrupted"}
            /\ removeTimers' = removeTimers + 1
       ELSE UNCHANGED <<emitted, removeTimers>>
    /\ reply' = NoReply
    /\ UNCHANGED <<uniqueCode, staleSockets, store, sessionOrder, accepted, activeSessions, now, questionTimers, graceTimers,
                   completeTimers, sock, hostSock,
                   nextPending, joinPending, completePending, questionEnded>>

\* ------------------------------------------------------------------ Next
Next ==
    \/ Tick
    \/ \E p \in Pids : Connect(p)
    \/ \E p \in Pids : Join(p)
    \/ \E p \in Pids, ok \in BOOLEAN : JoinResume(p, ok)
    \/ \E p \in Pids : Leave(p)
    \/ \E p \in Pids : Disconnect(p)
    \/ \E p \in Pids, q \in -1..(MaxQuestions - 1), o \in Options :
          AnswerSubmit(p, q, o)
    \/ QuestionNext
    \/ \E ok \in BOOLEAN : QuestionNextResume(ok)
    \/ QuestionSkip
    \/ \E h \in DOMAIN questionTimers : QuestionTimerFire(h)
    \/ SessionEnd
    \/ CompleteTimerFire
    \/ \E c \in {"cmd", "timer"} : CompleteResume(c)
    \/ RemoveTimerFire
    \/ HostDisconnect
    \/ HostReconnect
    \/ \E h \in graceTimers : GraceTimerFire(h)
    \/ \E ok \in BOOLEAN : GraceResume(ok)

Spec == Init /\ [][Next]_vars

\* ------------------------------------------------------- joins alone
\* session:join without the limit on suspended handlers: a client's joins
\* overlap each other and its answers, the host only starts questions.
JoinNext ==
    \/ Tick
    \/ \E p \in Pids : Connect(p)
    \/ \E p \in Pids : sessionJoin(p)
    \/ \E p \in Pids, ok \in BOOLEAN : JoinResume(p, ok)
    \/ \E p \in Pids : Leave(p)
    \/ \E p \in Pids : Disconnect(p)
    \/ \E p \in Pids, q \in -1..(MaxQuestions - 1), o \in Options :
          AnswerSubmit(p, q, o)
    \/ QuestionNext
    \/ \E ok \in BOOLEAN : QuestionNextResume(ok)

JoinSpec == Init /\ [][JoinNext]_vars

\* --------------------------------------------------- the registry's create
\* sessionManager.createSession(code, data) called for Code with the data of
\* any quiz, as session:create calls it once its write has returned
\* (quizSessionHandlers.js:108-139), whether or not the registry holds Code.
\* The timers of a replaced session stay live; creation is followed while
\* no question:next is suspended and at most MaxStrayTimers timers are live.
CreateSession(c) ==
    /\ hostSock # NoHostSocket
    /\ nextPending = 0
    /\ Cardinality(DOMAIN questionTimers) <= MaxStrayTimers
    /\ activeSessions' =
          SetSession(createSession(hostSock, Quiz(c.n), c.allowLateJoin))
    /\ sessionOrder' = IF HasSession THEN sessionOrder
                       ELSE Append(sessionOrder, Code)
    /\ reply' = Ack("session:create", Host, "ok")
    /\ UNCHANGED <<uniqueCode, staleSockets, store, accepted, now, questionTimers, graceTimers, completeTimers,
                   removeTimers, sock, hostSock, nextPending, joinPending,
                   completePending, gracePending, questionEnded, emitted>>

CreateNext ==
    \/ \E c \in QuizConfigs : CreateSession(c)
    \/ \E p \in Pids : Connect(p)
    \/ \E p \in Pids : Join(p)
    \/ \E p \in Pids, ok \in BOOLEAN : JoinResume(p, ok)
    \/ \E p \in Pids, q \in -1..(MaxQuestions - 1), o \in Options :
          AnswerSubmit(p, q, o)
    \/ QuestionNext
    \/ \E ok \in BOOLEAN : QuestionNextResume(ok)

CreateSpec == Init /\ [][CreateNext]_vars

\* --------------------------------------------------- leaderboard alone
\* getLeaderboard as a function of the registry and the limit: registries of
\* LbParticipants entries with sampled standings and names.
LbParticipants == 3
LbIds == 1..LbParticipants
LbNames == 1..2
LbLimits == {1, 2, 10}

\* <<score, correctAnswers>> after 0..3 correct answers of 100..150 points
StandingSamples == { <<0, 0>>, <<100, 1>>, <<150, 1>>, <<300, 2>>, <<300, 3>> }

Registries ==
    [LbIds -> { [ userName |-> n, socketId |-> OpenSocket, score |-> st[1],
                  correctAnswers |-> st[2], totalAnswered |-> 3,
                  currentAnswer |-> Null, hasAnsweredCurrent |-> FALSE,
                  isConnected |-> TRUE ] : n \in LbNames, st \in StandingSamples }]

LeaderboardInit ==
    /\ \E r \in Registries :
          activeSessions = OnlySession(
              [createSession(FirstSocketId, Quiz(MaxQuestions), TRUE)
                  EXCEPT !.participants = r])
    /\ sessionOrder = <<Code>>
    /\ store = NoStore
    /\ staleSockets = [p \in Pids |-> NoSocket]
    /\ uniqueCode = NoCall
    /\ now = 0
    /\ questionTimers = << >>
    /\ graceTimers = {}
    /\ completeTimers = 0
    /\ removeTimers = 0
    /\ sock = [p \in Pids |-> [id |-> NoSocket, oderId |-> FALSE]]
    /\ hostSock = FirstSocketId
    /\ nextPending = 0
    /\ joinPending = [p \in Pids |-> NoJoin]
    /\ completePending = [c \in {"cmd", "timer"} |-> 0]
    /\ gracePending = 0
    /\ questionEnded = FALSE
    /\ accepted = [p \in Pids |-> {}]
    /\ emitted = {}
    /\ reply = NoReply

\* a caller takes getLeaderboard(sessionCode, limit) of the session
GetLeaderboard(limit) ==
    /\ HasSession
    /\ reply' = [cmd |-> "getLeaderboard", from |-> Host, limit |-> limit,
                 result |-> getLeaderboard(Session, limit)]
    /\ UNCHANGED <<uniqueCode, staleSockets, store, sessionOrder, accepted, activeSessions, now, questionTimers, graceTimers,
                   completeTimers, removeTimers, sock, hostSock, nextPending,
                   joinPending, completePending, gracePending, questionEnded,
                   emitted>>

LeaderboardNext == \E limit \in LbLimits : GetLeaderboard(limit)

LeaderboardSpec == LeaderboardInit /\ [][LeaderboardNext]_vars

\* ------------------------------------------------------- scoring alone
\* recordAnswer as a function of the latency: sessions with a question open,
\* every client joined, and answer:submit arriving at a sampled latency.
LatencySamples ==
    { 0, 300, 550, 1000, 1100, 2000, 15000, 16500, 29700, 30000, 31000, 31500 }

\* every client registered over its open socket
WithAllJoined(s) ==
    [s EXCEPT !.participants =
        [p \in Pids |-> addParticipant(s, p, OpenSocket).participants[p]]]

\* the session after `k` question:next commands
RECURSIVE Advanced(_, _)
Advanced(s, k) == IF k = 0 THEN s ELSE Advanced(advanceQuestion(s), k - 1)

ScoringInit ==
    /\ \E t \in {TimePerQuestion, DefaultTimePerQuestion}, k \in 1..MaxQuestions :
          activeSessions = OnlySession(Advanced(WithAllJoined(
              [createSession(FirstSocketId, Quiz(MaxQuestions), TRUE)
                  EXCEPT !.timePerQuestion = t]), k))
    /\ sessionOrder = <<Code>>
    /\ store = NoStore
    /\ staleSockets = [p \in Pids |-> NoSocket]
    /\ uniqueCode = NoCall
    /\ now \in LatencySamples
    /\ questionTimers = << >>
    /\ graceTimers = {}
    /\ completeTimers = 0
    /\ removeTimers = 0
    /\ sock = [p \in Pids |-> [id |-> OpenSocket, oderId |-> TRUE]]
    /\ hostSock = FirstSocketId
    /\ nextPending = 0
    /\ joinPending = [p \in Pids |-> NoJoin]
    /\ completePending = [c \in {"cmd", "timer"} |-> 0]
    /\ gracePending = 0
    /\ questionEnded = FALSE
    /\ accepted = [p \in Pids |-> {}]
    /\ emitted = {}
    /\ reply = NoReply

ScoringNext ==
    \E p \in Pids, o \in Options :
        AnswerSubmit(p, Session.currentQuestionIndex, o)

ScoringSpec == ScoringInit /\ [][ScoringNext]_vars

\* ------------------------------------------- one host, several sessions
\* session:create puts no limit on the sessions of one socket: the host's
\* connection has created a second session, under OtherCode.  The commands of
\* the model address the session of Code; the other session has had its
\* commands before.
OtherCode == "QUIZ02"
Codes == {Code, OtherCode}

\* the session after a question:next that ran to its end with timer handle h
OpenQuestion(s, h) == [advanceQuestion(s) EXCEPT !.questionTimer = h]

\* the question timer of the session of `code`, when its first question is open
TimerOf(code) ==
    IF code = Code THEN FreshHandle({}) ELSE FreshHandle({FreshHandle({})})

RegistryInit ==
    /\ \E open \in SUBSET Codes :
          /\ activeSessions =
                [code \in Codes |->
                    LET lobby == createSession(FirstSocketId, Quiz(MaxQuestions), TRUE)
                    IN  IF code \in open
                        THEN OpenQuestion(lobby, TimerOf(code)) ELSE lobby]
          /\ questionTimers =
                [h \in {TimerOf(code) : code \in open} |->
                    TimePerQuestion * MsPerSecond]
    /\ sessionOrder \in {<<Code, OtherCode>>, <<OtherCode, Code>>}
    /\ store = NoStore
    /\ staleSockets = [p \in Pids |-> NoSocket]
    /\ uniqueCode = NoCall
    /\ now = 0
    /\ graceTimers = {}
    /\ completeTimers = 0
    /\ removeTimers = 0
    /\ sock = [p \in Pids |-> [id |-> NoSocket, oderId |-> FALSE]]
    /\ hostSock = FirstSocketId
    /\ nextPending = 0
    /\ joinPending = [p \in Pids |-> NoJoin]
    /\ completePending = [c \in {"cmd", "timer"} |-> 0]
    /\ gracePending = 0
    /\ questionEnded = FALSE
    /\ accepted = [p \in Pids |-> {}]
    /\ emitted = {}
    /\ reply = NoReply

RegistryNext ==
    \/ HostDisconnect
    \/ HostReconnect
    \/ \E p \in Pids : Connect(p)
    \/ \E p \in Pids : Join(p)
    \/ \E p \in Pids, ok \in BOOLEAN : JoinResume(p, ok)
    \/ \E p \in Pids, q \in -1..(MaxQuestions - 1), o \in Options :
          AnswerSubmit(p, q, o)
    \/ QuestionNext
    \/ \E ok \in BOOLEAN : QuestionNextResume(ok)

RegistrySpec == RegistryInit /\ [][RegistryNext]_vars

\* ------------------------------------------------- leaving beside others
\* A participant whose client does nothing further stands in the registry
\* while the modelled clients join, answer, leave and disconnect.
Bystander == MaxParticipants + 1

\* the sessions the bystander is registered in: a lobby, or the first question
\* open after a failed question:next write, answered correctly by the bystander
BystanderSessions ==
    LET lobby == addParticipant(
                    createSession(FirstSocketId, Quiz(MaxQuestions), TRUE),
                    Bystander, OpenSocket)
        answered == recordAnswer(advanceQuestion(lobby), Bystander, "a", EpochMs)
    IN  {lobby, answered}
            \cup {CloseSocket(updateParticipantConnection(s, Bystander, FALSE, NoSocket),
                              Bystander) : s \in {lobby, answered}}

LeaveInit ==
    /\ \E s \in BystanderSessions : activeSessions = OnlySession(s)
    /\ sessionOrder = <<Code>>
    /\ store = NoStore
    /\ staleSockets = [p \in Pids |-> NoSocket]
    /\ uniqueCode = NoCall
    /\ now = 0
    /\ questionTimers = << >>
    /\ graceTimers = {}
    /\ completeTimers = 0
    /\ removeTimers = 0
    /\ sock = [p \in Pids |-> [id |-> NoSocket, oderId |-> FALSE]]
    /\ hostSock = FirstSocketId
    /\ nextPending = 0
    /\ joinPending = [p \in Pids |-> NoJoin]
    /\ completePending = [c \in {"cmd", "timer"} |-> 0]
    /\ gracePending = 0
    /\ questionEnded = FALSE
    /\ accepted = [p \in Pids |-> {}]
    /\ emitted = {}
    /\ reply = NoReply

LeaveNext ==
    \/ Tick
    \/ \E p \in Pids : Connect(p)
    \/ \E p \in Pids : Join(p)
    \/ \E p \in Pids, ok \in BOOLEAN : JoinResume(p, ok)
    \/ \E p \in Pids : Leave(p)
    \/ \E p \in Pids : Disconnect(p)
    \/ \E p \in Pids, q \in -1..(MaxQuestions - 1), o \in Options :
          AnswerSubmit(p, q, o)
    \/ QuestionNext
    \/ \E ok \in BOOLEAN : QuestionNextResume(ok)

LeaveSpec == LeaveInit /\ [][LeaveNext]_vars

\* ------------------------------------------------- after the host is gone
\* The session's lifecycle with a host that may disconnect at any moment.
\* Timers expire once their delay has passed and a pending database call
\* settles: the event loop runs every due callback and every settled promise.
HostGoneNext ==
    \/ Tick
    \/ QuestionNext
    \/ \E ok \in BOOLEAN : QuestionNextResume(ok)
    \/ \E h \in DOMAIN questionTimers : QuestionTimerFire(h)
    \/ CompleteTimerFire
    \/ \E c \in {"cmd", "timer"} : CompleteResume(c)
    \/ RemoveTimerFire
    \/ HostDisconnect
    \/ HostReconnect
    \/ \E h \in graceTimers : GraceTimerFire(h)
    \/ \E ok \in BOOLEAN : GraceResume(ok)

HostGoneFairness ==
    /\ WF_vars(Tick)
    /\ WF_vars(\E ok \in BOOLEAN : QuestionNextResume(ok))
    /\ WF_vars(\E h \in DOMAIN questionTimers : QuestionTimerFire(h))
    /\ WF_vars(CompleteTimerFire)
    /\ WF_vars(\E c \in {"cmd", "timer"} : CompleteResume(c))
    /\ WF_vars(RemoveTimerFire)
    /\ WF_vars(\E h \in graceTimers : GraceTimerFire(h))
    /\ WF_vars(\E ok \in BOOLEAN : GraceResume(ok))

HostGoneSpec == LeaveInit /\ [][HostGoneNext]_vars /\ HostGoneFairness

\* ------------------------------------------------------ the durable mirror
\* answer:submit and handleQuestionEnd update the participant's document
\* with findOneAndUpdate calls they do not await: the calls are under way
\* together and the store applies them in any order.
NewDocument == [score |-> 0, correctAnswers |-> 0, totalAnswered |-> 0]

\* answer:submit: { $inc: { score, correctAnswers, totalAnswered } }
IncWrite(oderId, result) ==
    [op |-> "inc", oderId |-> oderId,
     score |-> result.pointsAwarded,
     correctAnswers |-> IF result.isCorrect THEN 1 ELSE 0,
     totalAnswered |-> 1]

\* handleQuestionEnd: { score, correctAnswers, totalAnswered } as they are
\* in memory when the call is issued
SetWrite(oderId, participant) ==
    [op |-> "set", oderId |-> oderId,
     score |-> participant.score,
     correctAnswers |-> participant.correctAnswers,
     totalAnswered |-> participant.totalAnswered]

\* handleQuestionEnd: one write per participant of the session
RECURSIVE SetWrites(_, _)
SetWrites(s, ids) ==
    IF ids = {} THEN << >>
    ELSE LET q == CHOOSE x \in ids : \A y \in ids : x <= y
         IN  <<SetWrite(q, s.participants[q])>> \o SetWrites(s, ids \ {q})

\* findOneAndUpdate({ sessionCode, oderId }, update): without a matching
\* document nothing changes
Applied(docs, w) ==
    IF w.oderId \notin DOMAIN docs THEN docs
    ELSE [docs EXCEPT ![w.oderId] =
            IF w.op = "inc"
            THEN [score |-> @.score + w.score,
                  correctAnswers |-> @.correctAnswers + w.correctAnswers,
                  totalAnswered |-> @.totalAnswered + w.totalAnswered]
            ELSE [score |-> w.score,
                  correctAnswers |-> w.correctAnswers,
                  totalAnswered |-> w.totalAnswered]]

Issue(ws) ==
    /\ Len(store.pending) + Len(ws) <= MaxWrites
    /\ store' = [store EXCEPT !.pending = @ \o ws]

\* the writes handleQuestionEnd issues
QuestionEndWrites ==
    IF QuestionEnds THEN SetWrites(Session, DOMAIN Session.participants)
    ELSE << >>

\* socket.on('answer:submit')
AnswerSubmitStored(p, questionIndex, selectedOption) ==
    /\ answerSubmit(p, questionIndex, selectedOption)
    /\ IF SubmitResult(p, questionIndex) = "ok"
       THEN Issue(<<IncWrite(p, recordAnswerReturn(Session, p, selectedOption,
                                                  DateNow))>>)
       ELSE UNCHANGED store

\* socket.on('question:skip')
QuestionSkipStored ==
    /\ questionSkip
    /\ IF HostCommandError = "none" THEN Issue(QuestionEndWrites)
       ELSE UNCHANGED store

\* the question timer's callback
QuestionTimerFireStored(h) ==
    /\ questionTimerFire(h)
    /\ Issue(QuestionEndWrites)

\* the store applies one of the writes under way
ApplyWrite(i) ==
    /\ i \in DOMAIN store.pending
    /\ store' = [docs |-> Applied(store.docs, store.pending[i]),
                 pending |-> SubSeq(store.pending, 1, i - 1)
                             \o SubSeq(store.pending, i + 1, Len(store.pending))]
    /\ reply' = NoReply
    /\ UNCHANGED <<uniqueCode, staleSockets, activeSessions, sessionOrder, now, questionTimers, graceTimers,
                   completeTimers, removeTimers, sock, hostSock, nextPending,
                   joinPending, completePending, gracePending, questionEnded,
                   accepted, emitted>>

\* every client has joined in the lobby and its document has been saved
StoreInit ==
    /\ activeSessions = OnlySession(WithAllJoined(
          createSession(FirstSocketId, Quiz(MaxQuestions), TRUE)))
    /\ sessionOrder = <<Code>>
    /\ store = [docs |-> [p \in Pids |-> NewDocument], pending |-> << >>]
    /\ staleSockets = [p \in Pids |-> NoSocket]
    /\ uniqueCode = NoCall
    /\ now = 0
    /\ questionTimers = << >>
    /\ graceTimers = {}
    /\ completeTimers = 0
    /\ removeTimers = 0
    /\ sock = [p \in Pids |-> [id |-> OpenSocket, oderId |-> TRUE]]
    /\ hostSock = FirstSocketId
    /\ nextPending = 0
    /\ joinPending = [p \in Pids |-> NoJoin]
    /\ completePending = [c \in {"cmd", "timer"} |-> 0]
    /\ gracePending = 0
    /\ questionEnded = FALSE
    /\ accepted = [p \in Pids |-> {}]
    /\ emitted = {}
    /\ reply = NoReply

StoreNext ==
    \/ Tick
    \/ \E p \in Pids, q \in -1..(MaxQuestions - 1), o \in Options :
          AnswerSubmitStored(p, q, o)
    \/ QuestionNext
    \/ \E ok \in BOOLEAN : QuestionNextResume(ok)
    \/ QuestionSkipStored
    \/ \E h \in DOMAIN questionTimers : QuestionTimerFireStored(h)
    \/ \E i \in DOMAIN store.pending : ApplyWrite(i)

StoreSpec == StoreInit /\ [][StoreNext]_vars

\* ------------------------------------------------- replaced connections
\* A client whose connection broke opens a new one before the server has
\* noticed the loss of the old one; the old socket's disconnect event comes
\* later.  At most one replaced connection per client is still open.
Renamed(id) == IF id = OpenSocket THEN StaleSocket ELSE id

\* quizNsp.on('connection') for a client whose previous socket is still open
Replace(p) ==
    /\ sock[p].id = OpenSocket
    /\ staleSockets[p] # OpenSocket
    /\ staleSockets' = [staleSockets EXCEPT ![p] = OpenSocket]
    /\ sock' = [sock EXCEPT ![p] = [id |-> OpenSocket, oderId |-> FALSE]]
    /\ activeSessions' =
          IF HasSession /\ p \in DOMAIN Session.participants
          THEN SetSession([Session EXCEPT !.participants[p].socketId = Renamed(@)])
          ELSE activeSessions
    /\ joinPending' = [joinPending EXCEPT ![p] =
          [i \in DOMAIN @ |-> [@[i] EXCEPT !.sock = Renamed(@)]]]
    /\ reply' = NoReply
    /\ UNCHANGED <<uniqueCode, store, sessionOrder, accepted, now, questionTimers, graceTimers,
                   completeTimers, removeTimers, hostSock, nextPending,
                   completePending, gracePending, questionEnded, emitted>>

\* socket.on('disconnect') for the replaced socket of client p
StaleDisconnect(p) ==
    /\ staleSockets[p] = OpenSocket
    /\ staleSockets' = [staleSockets EXCEPT ![p] =
          IF findParticipantBySocket(p, OpenSocket)
          THEN ClosedLate ELSE ClosedSocket]
    /\ activeSessions' =
          IF findParticipantBySocket(p, StaleSocket)
          THEN SetSession(CloseSocket(
                  updateParticipantConnection(Session, p, FALSE, NoSocket), p))
          ELSE activeSessions
    /\ joinPending' = [joinPending EXCEPT ![p] =
          [i \in DOMAIN @ |->
              [@[i] EXCEPT !.sock = IF @ = StaleSocket THEN ClosedSocket ELSE @]]]
    /\ reply' = NoReply
    /\ UNCHANGED <<uniqueCode, store, sessionOrder, accepted, now, questionTimers, graceTimers,
                   completeTimers, removeTimers, sock, hostSock, nextPending,
                   completePending, gracePending, questionEnded, emitted>>

ReconnectNext ==
    \/ \E p \in Pids : Connect(p)
    \/ \E p \in Pids : Replace(p)
    \/ \E p \in Pids : Join(p)
    \/ \E p \in Pids, ok \in BOOLEAN : JoinResume(p, ok)
    \/ \E p \in Pids : Leave(p)
    \/ \E p \in Pids : Disconnect(p)
    \/ \E p \in Pids : StaleDisconnect(p)
    \/ \E p \in Pids, q \in -1..(MaxQuestions - 1), o \in Options :
          AnswerSubmit(p, q, o)
    \/ QuestionNext
    \/ \E ok \in BOOLEAN : QuestionNextResume(ok)

ReconnectSpec == Init /\ [][ReconnectNext]_vars

\* ------------------------------------------------------ resynchronisation
\* session:join of registered participants in the lobby, or at sampled
\* instants of an open question, before and after they answer.
ResyncInit ==
    /\ \E t \in {TimePerQuestion, DefaultTimePerQuestion}, k \in 0..MaxQuestions,
          latency \in LatencySamples :
          /\ activeSessions = OnlySession(Advanced(WithAllJoined(
                [createSession(FirstSocketId, Quiz(MaxQuestions), TRUE)
                    EXCEPT !.timePerQuestion = t]), k))
          /\ now = IF k = 0 THEN 0 ELSE latency
    /\ sessionOrder = <<Code>>
    /\ store = NoStore
    /\ staleSockets = [p \in Pids |-> NoSocket]
    /\ uniqueCode = NoCall
    /\ questionTimers = << >>
    /\ graceTimers = {}
    /\ completeTimers = 0
    /\ removeTimers = 0
    /\ sock = [p \in Pids |-> [id |-> OpenSocket, oderId |-> TRUE]]
    /\ hostSock = FirstSocketId
    /\ nextPending = 0
    /\ joinPending = [p \in Pids |-> NoJoin]
    /\ completePending = [c \in {"cmd", "timer"} |-> 0]
    /\ gracePending = 0
    /\ questionEnded = FALSE
    /\ accepted = [p \in Pids |-> {}]
    /\ emitted = {}
    /\ reply = NoReply

ResyncNext ==
    \/ \E p \in Pids : Join(p)
    \/ \E p \in Pids, ok \in BOOLEAN : JoinResume(p, ok)
    \/ \E p \in Pids, o \in Options :
          AnswerSubmit(p, Session.currentQuestionIndex, o)

ResyncSpec == ResyncInit /\ [][ResyncNext]_vars

\* ------------------------------------------------------ session codes
\* The codes generateSessionCode can return when Math.random() selects among
\* DrawnChars, and those of them a registry may hold.
DrawnCodes == [1..CodeLength -> DrawnChars]
RepeatedCodes == {[i \in 1..CodeLength |-> c] : c \in DrawnChars}

\* a registry that always reports the code as free
has_NoCode(code) == FALSE

\* activeSessions.has(code)
has(code) == code \in DOMAIN activeSessions

\* One pass of the do-while loop of generateUniqueSessionCode, code being
\* what generateSessionCode returned.
Draw(code) ==
    /\ uniqueCode.outcome = "running"
    /\ uniqueCode' =
          [code |-> code,
           attempts |-> uniqueCode.attempts + 1,
           outcome |-> IF uniqueCode.attempts + 1 > MaxAttempts THEN "thrown"
                       ELSE IF has(code) THEN "running"
                       ELSE "returned"]
    /\ UNCHANGED <<activeSessions, sessionOrder, now, questionTimers, graceTimers,
                   completeTimers, removeTimers, sock, hostSock, nextPending,
                   joinPending, completePending, gracePending, questionEnded,
                   accepted, emitted, store, staleSockets, reply>>

\* the session registered under a code
Registered(code) == createSession(FirstSocketId, Quiz(MaxQuestions), TRUE)

CodeInit ==
    /\ \E registry \in SUBSET RepeatedCodes :
          /\ activeSessions = [code \in registry |-> Registered(code)]
          /\ sessionOrder \in {order \in [1..Cardinality(registry) -> registry] :
                                  \A code \in registry :
                                      \E i \in DOMAIN order : order[i] = code}
    /\ uniqueCode = [NoCall EXCEPT !.outcome = "running"]
    /\ now = 0
    /\ store = NoStore
    /\ staleSockets = [p \in Pids |-> NoSocket]
    /\ questionTimers = << >>
    /\ graceTimers = {}
    /\ completeTimers = 0
    /\ removeTimers = 0
    /\ sock = [p \in Pids |-> [id |-> NoSocket, oderId |-> FALSE]]
    /\ hostSock = FirstSocketId
    /\ nextPending = 0
    /\ joinPending = [p \in Pids |-> NoJoin]
    /\ completePending = [c \in {"cmd", "timer"} |-> 0]
    /\ gracePending = 0
    /\ questionEnded = FALSE
    /\ accepted = [p \in Pids |-> {}]
    /\ emitted = {}
    /\ reply = NoReply

CodeNext == \E code \in DrawnCodes : Draw(code)

\* the loop is synchronous code: a pass that can run does run
CodeSpec == CodeInit /\ [][CodeNext]_vars /\ WF_vars(CodeNext)

\* ---------------------------------------------------- properties checked
\* what a step observes of client p's entry in the session
Joined(p) == HasSession /\ p \in DOMAIN Session.participants
ScoreOf(p) == Session.participants[p].score

\* the latency recordAnswer computes for a submit arriving now
Latency == DateNow - Session.questionStartTime

\* the step just taken acknowledged client p's answer:submit with `result`
Submitted(p, result) == reply' = Ack("answer:submit", p, result)

\* C1: a participant has at most one accepted answer per question index: an
\* answer:submit is accepted only for a question the participant has no
\* accepted answer for, and once one is accepted a further submit for that
\* index is refused and leaves the session untouched, also after the
\* participant left or disconnected and joined again.
C1_OneAcceptedAnswerPerQuestion ==
    [][\A p \in Pids :
          /\ Submitted(p, "ok") =>
                /\ Session.currentQuestionIndex \notin accepted[p]
                /\ accepted'[p] = accepted[p] \cup {Session.currentQuestionIndex}
          /\ (Joined(p) /\ Session.currentQuestionIndex \in accepted[p]) =>
                /\ \A q \in -1..(MaxQuestions - 1) : SubmitResult(p, q) # "ok"
                /\ (reply'.cmd = "answer:submit" /\ reply'.from = p) =>
                      UNCHANGED activeSessions
                /\ (HasSession' /\ Session'.currentQuestionIndex
                                     = Session.currentQuestionIndex) =>
                      /\ p \in DOMAIN Session'.participants
                      /\ Session'.participants[p].hasAnsweredCurrent]_vars

\* C1 witness: a participant whose answer was accepted reconnected through
\* session:join and its next submit for that question would be refused.
C1_Witness ==
    \E p \in Pids :
        /\ reply = Ack("session:join", p, "reconnected")
        /\ Joined(p)
        /\ Session.currentQuestionIndex \in accepted[p]
        /\ SubmitResult(p, Session.currentQuestionIndex) = "already_answered"

\* the points the scoring rule gives the answer accepted by the step just taken
ExpectedPoints(p) ==
    LET question == QuestionAt(Session, Session.currentQuestionIndex)
        selected == Session'.participants[p].currentAnswer
        bonus == MathRound((TimeLimitMs(Session) - Latency) * SpeedBonusMax,
                           TimeLimitMs(Session))
    IN  IF selected \in question.correct_answers
        THEN BasePointsPerQuestion + Max(0, bonus)
        ELSE 0

\* C2: a participant's score never decreases, and it changes only in the
\* step that accepts an answer of that participant, by exactly the points
\* computed for that answer (0 when the answer is wrong).
C2_ScoreChangesOnlyByAcceptedPoints ==
    [][\A p \in Pids :
          (Joined(p) /\ HasSession' /\ p \in DOMAIN Session'.participants) =>
              /\ ScoreOf(p)' >= ScoreOf(p)
              /\ ScoreOf(p)' - ScoreOf(p) =
                    IF Submitted(p, "ok") THEN ExpectedPoints(p) ELSE 0]_vars

\* C2 witness: an accepted correct answer has just raised the score.
C2_Witness ==
    \E p \in Pids :
        /\ reply = Ack("answer:submit", p, "ok")
        /\ Joined(p)
        /\ ScoreOf(p) > BasePointsPerQuestion
        /\ Session.participants[p].correctAnswers > 0

\* C3: currentQuestionIndex stays within -1 .. (number of questions - 1)
\* and never decreases; a question:next is admitted only below the last
\* index and then advances by one, and at the last index no step changes
\* the index, also while earlier question:next handlers are still awaiting
\* their durable write.
C3_IndexBoundedAndNonDecreasing ==
    [][/\ HasSession' =>
             /\ Session'.currentQuestionIndex >= -1
             /\ Session'.currentQuestionIndex <= Len(Session'.questions) - 1
       /\ (HasSession /\ HasSession') =>
             /\ Session'.currentQuestionIndex >= Session.currentQuestionIndex
             /\ nextPending' > nextPending =>
                   /\ Session.currentQuestionIndex < Len(Session.questions) - 1
                   /\ Session'.currentQuestionIndex
                         = Session.currentQuestionIndex + 1
             /\ Session.currentQuestionIndex >= Len(Session.questions) - 1 =>
                   /\ Session'.currentQuestionIndex = Session.currentQuestionIndex
                   /\ nextPending' <= nextPending
             /\ reply' = Ack("question:next", Host, "no_more_questions") =>
                   UNCHANGED activeSessions]_vars

\* C3 witness: question:next was refused at the last index while two earlier
\* question:next handlers were still awaiting their write.
C3_Witness ==
    /\ reply = Ack("question:next", Host, "no_more_questions")
    /\ nextPending = 2
    /\ HasSession
    /\ Session.currentQuestionIndex = Len(Session.questions) - 1
    /\ Session.currentQuestionIndex > 0

\* the status changes the lifecycle allows
AllowedTransitions ==
    { <<"lobby", "in-progress">>, <<"in-progress", "paused">>,
      <<"in-progress", "completed">>, <<"in-progress", "interrupted">>,
      <<"paused", "in-progress">>, <<"paused", "interrupted">> }

\* C4: every change of a session's status is one of lobby -> in-progress,
\* in-progress -> paused | completed | interrupted, paused -> in-progress |
\* interrupted; completed and interrupted are never left, and neither lobby
\* nor paused goes directly to completed.
C4_OnlyAllowedStatusTransitions ==
    [][(HasSession /\ HasSession' /\ Session'.status # Session.status) =>
          <<Session.status, Session'.status>> \in AllowedTransitions]_vars

\* C5: while a session is paused it has no live question timer.
C5_PausedHasNoLiveQuestionTimer ==
    (HasSession /\ Session.status = "paused") => DOMAIN questionTimers = {}

HostCommands == {"question:next", "question:skip", "session:end"}

\* C6: a host that reconnected to its paused session before the grace timer
\* fired takes the session up again: its question:next, question:skip and
\* session:end are not refused for lack of authority over the session.
C6_ReconnectedHostResumes ==
    (/\ HasSession
     /\ Session.status = "paused"
     /\ Session.adminDisconnectTimer \in graceTimers
     /\ Inflight = 0
     /\ hostSock = LaterSocketId)
    => ~(reply.cmd \in HostCommands /\ reply.result = "not_admin")

\* C7: once the grace callback of a paused session has run to its end, the
\* session is interrupted, session:interrupted was broadcast and the removal
\* of the session is scheduled, whether or not its durable write succeeded.
C7_GraceExpiryInterruptsAndSchedulesRemoval ==
    (HasSession /\ Session.status = "interrupted" /\ gracePending = 0) =>
        /\ "session:interrupted" \in emitted
        /\ removeTimers > 0

\* C8: handlers of one session do not interleave: while a handler is
\* suspended at its durable write, the only step that changes the session
\* or answers a command is the continuation of a suspended handler.
C8_HandlersRunToCompletion ==
    [][(Inflight > 0 /\ (activeSessions' # activeSessions \/ reply' # NoReply))
          => Inflight' < Inflight]_vars

\* C9: a session has at most one live question timer, and none that can
\* still fire once the current question was ended (by skip or expiry), the
\* session was ended, or the session was removed.
C9_AtMostOneLiveQuestionTimer ==
    /\ Cardinality(DOMAIN questionTimers) <= 1
    /\ (~HasSession \/ questionEnded \/ Session.status = "completed") =>
          DOMAIN questionTimers = {}

\* answer:submit results of a submit that reached recordAnswer's time check
ReachedTimeCheck == {"time_expired", "question_not_found", "ok"}

\* C10: an answer:submit with latency above the time limit plus the 1000 ms
\* tolerance is never accepted and leaves the session as it was, and it is
\* refused as expired whenever it reaches the time check, whether or not the
\* question timer has fired; a submit with latency at most limit + 1000 ms
\* is never refused as expired (limit 30000: 31500 is late, 31000 is not).
C10_LateAnswerRejected ==
    [][/\ IsLate(31500, 30000) /\ ~IsLate(31000, 30000)
       /\ \A p \in Pids :
             (reply'.cmd = "answer:submit" /\ reply'.from = p /\ HasSession) =>
                 LET late == Latency > TimeLimitMs(Session) + SkewToleranceMs
                 IN  /\ late => (reply'.result # "ok"
                                 /\ UNCHANGED <<activeSessions, accepted>>)
                     /\ reply'.result \in ReachedTimeCheck =>
                           (reply'.result = "time_expired" <=> late)
                     /\ reply'.result = "time_expired" => late]_vars

\* C10 witness: a submit was refused as expired while the question's timer
\* was still live and the question had not been ended.
C10_Witness ==
    \E p \in Pids :
        /\ reply = Ack("answer:submit", p, "time_expired")
        /\ Joined(p)
        /\ Session.status = "in-progress"
        /\ ~questionEnded
        /\ Session.questionTimer \in DOMAIN questionTimers

\* C11: once question:end was broadcast for the current question (by timer
\* expiry or by question:skip), no answer:submit is accepted and no score
\* changes until the next question starts.
C11_NoAnswerAfterQuestionEnd ==
    [][(questionEnded /\ questionEnded') =>
          /\ \A p \in Pids : ~Submitted(p, "ok")
          /\ \A p \in Pids :
                (Joined(p) /\ HasSession' /\ p \in DOMAIN Session'.participants)
                    => ScoreOf(p)' = ScoreOf(p)]_vars

\* the points and the speed bonus the step just taken gave client p
Gained(p) == ScoreOf(p)' - ScoreOf(p)
ScoredCorrect(p) ==
    Session'.participants[p].correctAnswers
        = Session.participants[p].correctAnswers + 1

\* r is an integer nearest to num / den (den > 0)
Nearest(r, num, den) ==
    /\ 2 * den * r - 2 * num <= den
    /\ 2 * num - 2 * den * r <= den

C13_WholeSetCorrectness ==
    [][\A p \in Pids :
          Submitted(p, "ok") =>
              LET question == QuestionAt(Session, Session.currentQuestionIndex)
                  selected == Session'.participants[p].currentAnswer
              IN  {selected} # question.correct_answers =>
                      (Gained(p) = 0 /\ ~ScoredCorrect(p))]_vars

\* C16: the speed bonus of a correct accepted answer lies in
\* 0..maxSpeedBonus, is 0 from the time limit on, and is non-increasing in
\* the latency: no smaller latency earns less and no larger one earns more.
C16_SpeedBonusMonotoneAndBounded ==
    [][\A p \in Pids :
          (Submitted(p, "ok") /\ ScoredCorrect(p)) =>
              LET limit == TimeLimitMs(Session)
                  max == Session.speedBonusMax
                  bonus == Gained(p) - Session.basePointsPerQuestion
              IN  /\ bonus >= 0
                  /\ bonus <= max
                  /\ Latency >= limit => bonus = 0
                  /\ Latency = 0 => bonus = max
                  /\ \A l \in LatencySamples :
                        /\ l <= Latency => SpeedBonus(l, limit, max) >= bonus
                        /\ (l >= Latency /\ l <= limit + SkewToleranceMs) =>
                              SpeedBonus(l, limit, max) <= bonus]_vars

\* C16 witness: a correct answer accepted after the time limit, within the
\* tolerance, earned the base points and no bonus.
C16_Witness ==
    \E p \in Pids :
        /\ reply = Ack("answer:submit", p, "ok")
        /\ Latency > TimeLimitMs(Session)
        /\ Session.participants[p].correctAnswers = 1
        /\ ScoreOf(p) = Session.basePointsPerQuestion

\* the leaderboard the step just taken returned
IsLeaderboard == reply.cmd = "getLeaderboard"
SameStanding(a, b) ==
    a.score = b.score /\ a.correctAnswers = b.correctAnswers

\* C14: in a leaderboard two entries have the same rank exactly if their
\* score and correctAnswers are both equal, and ranks are dense: the first
\* entry has rank 1 and each next distinct standing has the previous rank
\* plus one.
C14_DenseRanks ==
    IsLeaderboard =>
        LET lb == reply.result
        IN  /\ \A i, j \in DOMAIN lb :
                  (lb[i].rank = lb[j].rank) <=> SameStanding(lb[i], lb[j])
            /\ \A i \in DOMAIN lb :
                  lb[i].rank =
                      IF i = 1 THEN 1
                      ELSE IF SameStanding(lb[i], lb[i - 1]) THEN lb[i - 1].rank
                      ELSE lb[i - 1].rank + 1

\* entry a may stand in front of entry b: score descending, then
\* correctAnswers descending, then name ascending
InOrder(a, b) ==
    \/ a.score > b.score
    \/ a.score = b.score /\ a.correctAnswers > b.correctAnswers
    \/ SameStanding(a, b) /\ a.userName <= b.userName

\* C15: getLeaderboard(session, N) returns min(N, number of participants)
\* entries, each a different participant with its current score, correct
\* count and name, ordered by score descending, correctAnswers descending,
\* name ascending, and no participant left out would come before a listed one.
C15_TopNInOrder ==
    IsLeaderboard =>
        LET lb == reply.result
            all == Session.participants
            listed == {lb[i].oderId : i \in DOMAIN lb}
        IN  /\ Len(lb) = Min(reply.limit, Cardinality(DOMAIN all))
            /\ Cardinality(listed) = Len(lb)
            /\ \A i \in DOMAIN lb :
                  /\ lb[i].oderId \in DOMAIN all
                  /\ lb[i].score = all[lb[i].oderId].score
                  /\ lb[i].correctAnswers = all[lb[i].oderId].correctAnswers
                  /\ lb[i].userName = all[lb[i].oderId].userName
                  /\ lb[i].totalAnswered = all[lb[i].oderId].totalAnswered
            /\ \A i, j \in DOMAIN lb : i < j => InOrder(lb[i], lb[j])
            /\ \A i \in DOMAIN lb, p \in DOMAIN all \ listed :
                  InOrder(lb[i], all[p])

\* C15 witness: a leaderboard cut to fewer entries than participants whose
\* first two entries tie on score and correct count and stand in name order.
C15_Witness ==
    /\ IsLeaderboard
    /\ Len(reply.result) = 2
    /\ Cardinality(DOMAIN Session.participants) > 2
    /\ SameStanding(reply.result[1], reply.result[2])
    /\ reply.result[1].userName < reply.result[2].userName
    /\ reply.result[1].oderId > reply.result[2].oderId

\* the step just taken is client p's session:join reaching its await as `kind`
JoinStarted(p, kind) ==
    /\ Len(joinPending'[p]) = Len(joinPending[p]) + 1
    /\ joinPending'[p][Len(joinPending'[p])].kind = kind

\* the step just taken belongs to a session:join of client p
JoinStep(p) ==
    \/ Len(joinPending'[p]) # Len(joinPending[p])
    \/ reply'.cmd = "session:join" /\ reply'.from = p

\* C17: whatever way session:join commands of one participant id follow or
\* overlap each other (a second one arriving while the first awaits its
\* write included), a join step keeps a registered participant registered
\* with its score, correctAnswers, totalAnswered and hasAnsweredCurrent
\* unchanged, and a join that reaches its await leaves the id registered.
C17_JoinIsIdempotent ==
    [][\A p \in Pids : JoinStep(p) =>
          /\ Joined(p) =>
                /\ Joined(p)'
                /\ Session'.participants[p].score = Session.participants[p].score
                /\ Session'.participants[p].correctAnswers =
                       Session.participants[p].correctAnswers
                /\ Session'.participants[p].totalAnswered =
                       Session.participants[p].totalAnswered
                /\ Session'.participants[p].hasAnsweredCurrent =
                       Session.participants[p].hasAnsweredCurrent
          /\ Len(joinPending'[p]) > Len(joinPending[p]) => Joined(p)'
          /\ JoinStarted(p, "new") => ~Joined(p)]_vars

\* C17 witness: a participant with points and an accepted answer has two
\* joins awaiting their writes, the older one the join that registered it.
C17_Witness ==
    \E p \in Pids :
        /\ Joined(p)
        /\ Len(joinPending[p]) = 2
        /\ joinPending[p][1].kind = "new"
        /\ ScoreOf(p) > 0
        /\ Session.participants[p].hasAnsweredCurrent

\* C18: a session:join of a registered participant sets isConnected and the
\* socket id of the joining socket and leaves every other field of the entry
\* (score, correctAnswers, totalAnswered, currentAnswer, hasAnsweredCurrent)
\* and the rest of the session as they were; its completion changes nothing.
C18_ReconnectPreservesStanding ==
    [][\A p \in Pids :
          /\ JoinStarted(p, "reconnect") =>
                /\ Joined(p)
                /\ Session' = [Session EXCEPT !.participants[p] =
                        [@ EXCEPT !.isConnected = TRUE, !.socketId = sock[p].id]]
                /\ Session'.participants[p].socketId # NoSocket
          /\ reply' = Ack("session:join", p, "reconnected") =>
                UNCHANGED activeSessions]_vars

\* C18 witness: a reconnect completed for a participant that is connected
\* again and still has its points and its answer to the current question.
C18_Witness ==
    \E p \in Pids :
        /\ reply = Ack("session:join", p, "reconnected")
        /\ Joined(p)
        /\ Session.participants[p].isConnected
        /\ Session.participants[p].socketId = sock[p].id
        /\ ScoreOf(p) > 0
        /\ Session.participants[p].hasAnsweredCurrent
        /\ Session.participants[p].currentAnswer # Null

\* C19: a session:join of a registered participant is never refused by the
\* late-join restriction: in every status other than completed and
\* interrupted it is handled as a reconnect.
C19_RegisteredJoinIsReconnect ==
    [][\A p \in Pids :
          (Joined(p) /\ Session.status \notin {"completed", "interrupted"})
              => reply' # Ack("session:join", p, "late_join_not_allowed")]_vars

\* the session takes no new participant
Unjoinable ==
    \/ ~HasSession
    \/ Session.status \in {"completed", "interrupted"}
    \/ Session.status = "in-progress" /\ ~Session.allowLateJoin

\* C20: a session:join of an id that is not registered is refused with the
\* sessions unchanged when the session is unknown, completed, interrupted or
\* in progress without late join, and no step registers the id then;
\* otherwise the join registers it with score 0, correctAnswers 0,
\* totalAnswered 0 and isConnected true, leaving the other entries alone.
C20_NewJoinRefusedOrRegistered ==
    [][\A p \in Pids : ~Joined(p) =>
          /\ reply'.cmd = "session:join" /\ reply'.from = p
                /\ reply'.result \in {"session_not_found", "session_ended",
                                      "late_join_not_allowed"}
                => Unjoinable /\ UNCHANGED activeSessions
          /\ Unjoinable => ~Joined(p)'
          /\ Len(joinPending'[p]) > Len(joinPending[p]) =>
                /\ ~Unjoinable
                /\ JoinStarted(p, "new")
          /\ Joined(p)' =>
                /\ JoinStarted(p, "new")
                /\ Session'.participants[p].score = 0
                /\ Session'.participants[p].correctAnswers = 0
                /\ Session'.participants[p].totalAnswered = 0
                /\ Session'.participants[p].isConnected
                /\ \A q \in DOMAIN Session.participants :
                      Session'.participants[q] = Session.participants[q]]_vars

\* C20 witness: a client that is not registered was refused because the quiz
\* is in progress without late join.
C20_Witness ==
    \E p \in Pids :
        /\ reply = Ack("session:join", p, "late_join_not_allowed")
        /\ ~Joined(p)
        /\ Session.status = "in-progress"
        /\ ~Session.allowLateJoin

\* the step just taken resumed a session:join of client p that had started
\* as `kind`
JoinResumed(p, kind) ==
    \E i \in DOMAIN joinPending[p] :
        /\ joinPending[p][i].kind = kind
        /\ Len(joinPending'[p]) = Len(joinPending[p]) - 1
        /\ \A j \in DOMAIN joinPending'[p] :
              joinPending'[p][j].kind =
                  joinPending[p][IF j < i THEN j ELSE j + 1].kind

Commands ==
    {"session:join", "question:next", "answer:submit", "question:skip",
     "session:end"}
Successes == {"ok", "reconnected"}

\* C21: a command that replies with an error has left the session as it was
\* before the command: the step that sends the error changes no session
\* state and no timer, and a session:join of an unregistered id that ends in
\* an error leaves the id unregistered.
C21_ErrorLeavesStateUnchanged ==
    [][(reply'.cmd \in Commands /\ reply'.result \notin Successes) =>
          /\ UNCHANGED <<activeSessions, questionTimers, graceTimers,
                         completeTimers, removeTimers, questionEnded>>
          /\ \A p \in Pids :
                (reply'.cmd = "session:join" /\ reply'.from = p
                 /\ JoinResumed(p, "new")) => ~Joined(p)']_vars

\* C22: a durable write that fails is not a command failure: when a
\* question:next returns from its write the reply is a success and the
\* session holds a live question timer, and when a session:join returns from
\* its write the reply is a success and the joining socket, if still open,
\* is authenticated for answer:submit.
C22_WriteFailureIsNotCommandFailure ==
    [][/\ nextPending' < nextPending =>
             /\ reply' = Ack("question:next", Host, "ok")
             /\ HasSession' => Session'.questionTimer \in DOMAIN questionTimers'
       /\ \A p \in Pids : Len(joinPending'[p]) < Len(joinPending[p]) =>
             /\ reply'.cmd = "session:join"
             /\ reply'.result \in Successes
             /\ (Len(joinPending[p]) = 1 /\ joinPending[p][1].sock = sock[p].id)
                    => sock'[p].oderId]_vars

\* C23: a session leaves the registry only while its status is completed or
\* interrupted; a session in lobby, in-progress or paused is never removed.
C23_OnlyEndedSessionsAreRemoved ==
    [][\A code \in DOMAIN activeSessions :
          code \notin DOMAIN activeSessions' =>
              activeSessions[code].status \in {"completed", "interrupted"}]_vars

\* question:end was broadcast for the last question of the session
LastQuestionEnded ==
    /\ HasSession
    /\ questionEnded
    /\ HasQuestion(Session, Session.currentQuestionIndex)
    /\ IsLastQuestion(Session)

\* C24: once the last question of a session has ended the session becomes
\* completed, with quiz:complete broadcast, before it is removed: it is not
\* removed while that is still to come.
C24_CompletedBeforeRemoved ==
    [][(LastQuestionEnded /\ ~HasSession') =>
          (Session.status = "completed" /\ "quiz:complete" \in emitted)]_vars

\* C25: createSession for a code the registry already holds fails and
\* leaves the session of that code, and with it its status, index,
\* participants, scores and timers, as it was.
C25_CreateKeepsExistingSession ==
    [][(HasSession /\ reply'.cmd = "session:create") =>
          /\ reply'.result # "ok"
          /\ UNCHANGED <<activeSessions, sessionOrder>>]_vars

\* the step just taken is a host command taking effect
HostCommandAccepted ==
    \/ nextPending' > nextPending
    \/ reply' = Ack("question:skip", Host, "ok")
    \/ completePending'["cmd"] > completePending["cmd"]
    \/ reply' = Ack("session:end", Host, "ok") /\ UNCHANGED completePending

\* the step just taken answered a host command as soon as it arrived
HostCommandAnswered ==
    /\ reply'.cmd \in HostCommands
    /\ UNCHANGED <<nextPending, completePending>>

\* C26: question:next, question:skip and session:end from a connection that
\* is not the session's admin socket are answered with the not-admin error
\* and change nothing: no session field, no timer, no suspended handler, no
\* question end and no broadcast; a host command takes effect only from the
\* admin socket.
C26_OnlyAdminSocketCommands ==
    [][/\ (HasSession /\ Session.adminSocketId # hostSock /\ HostCommandAnswered)
             => reply'.result = "not_admin"
       /\ (reply'.cmd \in HostCommands /\ reply'.result = "not_admin") =>
             /\ HasSession /\ Session.adminSocketId # hostSock
             /\ UNCHANGED <<activeSessions, sessionOrder, now, questionTimers,
                            graceTimers, completeTimers, removeTimers,
                            nextPending, completePending, questionEnded,
                            emitted>>
       /\ HostCommandAccepted =>
             (HasSession /\ Session.adminSocketId = hostSock)]_vars

\* C26 witness: a connection that is not the admin socket had its
\* question:next refused while the session was paused before its last
\* question.
C26_Witness ==
    /\ reply = Ack("question:next", Host, "not_admin")
    /\ HasSession
    /\ Session.status = "paused"
    /\ hostSock = LaterSocketId
    /\ ~IsLastQuestion(Session)

\* the answer keys and explanations a question could have
AnswerKeys == SUBSET {QuestionOptions[k].option_id : k \in DOMAIN QuestionOptions}
Explanations == {"because", "otherwise"}

\* session s with another answer key and explanation for its current question
WithAnswerKey(s, key, explanation) ==
    [s EXCEPT !.questions[s.currentQuestionIndex + 1] =
        [@ EXCEPT !.correct_answers = key, !.explanation = explanation]]

SecretFields == {"correct_answers", "correctAnswers", "explanation"}

\* C27: no message sent to a participant while a question is open carries the
\* question's correct answers or its explanation: the question:start
\* broadcast, the reply to a reconnecting join and the reply to a new join
\* have no such field and are the same whatever the answer key and the
\* explanation of the current question are.
C27_NoAnswerKeyBeforeQuestionEnd ==
    [][/\ nextPending' > nextPending =>
             /\ DOMAIN questionData(Session') \cap SecretFields = {}
             /\ \A key \in AnswerKeys, explanation \in Explanations :
                    questionData(WithAnswerKey(Session', key, explanation))
                        = questionData(Session')
       /\ \A p \in Pids :
             (HasSession /\ reply' = Ack("session:join", p, "reconnected")) =>
                 /\ DOMAIN resyncData(Session, p, DateNow) \cap SecretFields = {}
                 /\ ResyncsQuestion(Session) =>
                       /\ DOMAIN currentQuestion(Session, DateNow)
                              \cap SecretFields = {}
                       /\ \A key \in AnswerKeys, explanation \in Explanations :
                              resyncData(WithAnswerKey(Session, key, explanation),
                                         p, DateNow)
                                  = resyncData(Session, p, DateNow)
       /\ \A p \in Pids :
             (HasSession /\ reply' = Ack("session:join", p, "ok")) =>
                 /\ DOMAIN joinData(Session) \cap SecretFields = {}
                 /\ HasQuestion(Session, Session.currentQuestionIndex) =>
                       \A key \in AnswerKeys, explanation \in Explanations :
                           joinData(WithAnswerKey(Session, key, explanation))
                               = joinData(Session)]_vars

\* a participant who had answered the open question has reconnected
C27_Witness ==
    \E p \in Pids :
        /\ reply = Ack("session:join", p, "reconnected")
        /\ HasSession /\ ResyncsQuestion(Session) /\ ~questionEnded
        /\ p \in DOMAIN Session.participants
        /\ Session.participants[p].hasAnsweredCurrent

ResultFields == {"isCorrect", "pointsAwarded", "speedBonus", "newScore", "score"}

\* C28: the acknowledgement of an accepted answer:submit says nothing about
\* the answer: it has no correctness, points or score field and is the same
\* for every option the participant could have selected and every answer key
\* the question could have.
C28_AckHidesCorrectness ==
    [][\A p \in Pids, selected \in Options :
          (/\ Submitted(p, "ok")
           /\ activeSessions' =
                  SetSession(recordAnswer(Session, p, selected, DateNow))) =>
              LET ack == answerAck(recordAnswerReturn(Session, p, selected, DateNow))
              IN  /\ DOMAIN ack \cap ResultFields = {}
                  /\ \A other \in Options :
                        answerAck(recordAnswerReturn(Session, p, other, DateNow))
                            = ack
                  /\ \A key \in AnswerKeys :
                        answerAck(recordAnswerReturn(
                            WithAnswerKey(Session, key, "because"),
                            p, selected, DateNow)) = ack]_vars

\* a correct answer has been accepted and has earned points
C28_Witness ==
    \E p \in Pids :
        /\ reply = Ack("answer:submit", p, "ok")
        /\ HasSession /\ p \in DOMAIN Session.participants
        /\ Session.participants[p].hasAnsweredCurrent
        /\ Session.participants[p].score > 0

\* the step just taken marked participant p as away and changed nothing else
\* of the registry
MarkedAway(p) ==
    LET before == Session.participants
        after == Session'.participants
    IN  /\ HasSession'
        /\ DOMAIN after = DOMAIN before
        /\ ~after[p].isConnected
        /\ after[p].score = before[p].score
        /\ after[p].correctAnswers = before[p].correctAnswers
        /\ after[p].totalAnswered = before[p].totalAnswered
        /\ after[p].hasAnsweredCurrent = before[p].hasAnsweredCurrent
        /\ \A q \in DOMAIN before \ {p} : after[q] = before[q]

\* C29: the disconnect of a participant's socket and a session:leave from it
\* set the participant's isConnected to false, keep the entry with its score,
\* correctAnswers, totalAnswered and hasAnsweredCurrent, and leave every other
\* participant as it was; and an entry leaves the registry only together with
\* its session.
C29_LeavingKeepsStanding ==
    [][\A p \in Pids :
          /\ (Joined(p) /\ Leave(p)) => MarkedAway(p)
          /\ (Joined(p) /\ findParticipantBySocket(p, sock[p].id) /\ Disconnect(p))
                => MarkedAway(p)
          /\ (Joined(p) /\ HasSession') => Joined(p)']_vars

\* a participant with points and an accepted answer to the open question is
\* away, while another participant with points is still connected
C29_Witness ==
    \E p \in Pids :
        /\ Joined(p) /\ Bystander \in DOMAIN Session.participants
        /\ sock[p].id = NoSocket
        /\ ~Session.participants[p].isConnected
        /\ Session.participants[p].score > 0
        /\ Session.participants[p].hasAnsweredCurrent
        /\ Session.participants[Bystander].isConnected
        /\ Session.participants[Bystander].score > 0

\* C30: when the host's connection closes, every in-progress session whose
\* adminSocketId it is becomes paused, with its question timer cancelled and
\* a grace timer armed, however many sessions that connection has created.
C30_DisconnectPausesEverySession ==
    [][(hostSock # NoHostSocket /\ hostSock' = NoHostSocket) =>
          \A code \in DOMAIN activeSessions :
              (/\ activeSessions[code].adminSocketId = hostSock
               /\ activeSessions[code].status = "in-progress") =>
                  /\ activeSessions'[code].status = "paused"
                  /\ activeSessions[code].questionTimer \notin DOMAIN questionTimers'
                  /\ activeSessions'[code].adminDisconnectTimer \in graceTimers']_vars

\* C31: an answer:submit is accepted only while the session is in-progress:
\* in every other status it is refused and changes no participant entry.
C31_AnswersOnlyInProgress ==
    [][\A p \in Pids :
          (/\ HasSession /\ Session.status # "in-progress"
           /\ reply'.cmd = "answer:submit" /\ reply'.from = p) =>
              /\ reply'.result # "ok"
              /\ HasSession' /\ Session'.participants = Session.participants]_vars

\* the step just taken ran handleQuestionEnd up to its broadcast of
\* question:end, from an accepted question:skip or from a question timer
QuestionEndBroadcast ==
    /\ QuestionEnds
    /\ \/ questionSkip /\ reply' = Ack("question:skip", Host, "ok")
       \/ \E h \in DOMAIN questionTimers : questionTimerFire(h)

\* C32: question:end is broadcast at most once for a question index of a
\* session: it is never broadcast for a question that has already ended.
C32_QuestionEndsOnce ==
    [][QuestionEndBroadcast => ~questionEnded]_vars

\* C33: an answer:submit whose questionIndex is not the session's
\* currentQuestionIndex is refused (as question_changed once the socket is
\* authenticated and the session exists), changes no participant entry and
\* adds no accepted answer.
C33_StaleAnswerRejected ==
    [][\A p \in Pids, q \in -1..(MaxQuestions - 1), o \in Options :
          (/\ reply'.cmd = "answer:submit" /\ reply'.from = p
           /\ HasSession /\ q # Session.currentQuestionIndex
           /\ AnswerSubmit(p, q, o)) =>
              /\ reply'.result # "ok"
              /\ sock[p].oderId => reply' = Ack("answer:submit", p, "question_changed")
              /\ UNCHANGED <<activeSessions, accepted>>]_vars

\* an answer to the previous question arrived after the host had advanced,
\* at a moment when an answer to the new question would have been accepted
C33_Witness ==
    \E p \in Pids :
        /\ reply = Ack("answer:submit", p, "question_changed")
        /\ Joined(p)
        /\ Session.currentQuestionIndex > 0
        /\ ~Session.participants[p].hasAnsweredCurrent
        /\ Session.currentQuestionIndex \notin accepted[p]
        /\ SubmitResult(p, Session.currentQuestionIndex) = "ok"

\* C34: a session whose host connection has disconnected is eventually
\* removed from the registry, whatever its status was at the disconnect.
C34_HostGoneSessionRemoved ==
    (HasSession /\ hostSock # Session.adminSocketId) ~> ~HasSession

\* C35: once every durable write issued has been applied, in whatever order,
\* each participant's document holds the score, correctAnswers and
\* totalAnswered the participant has in memory.
C35_StoreMirrorsMemory ==
    (HasSession /\ store.pending = << >>) =>
        \A p \in DOMAIN Session.participants :
            /\ p \in DOMAIN store.docs
            /\ store.docs[p].score = Session.participants[p].score
            /\ store.docs[p].correctAnswers = Session.participants[p].correctAnswers
            /\ store.docs[p].totalAnswered = Session.participants[p].totalAnswered

\* C36: the question:personal-result sent when a question ends reports the
\* points recordAnswer awarded the participant for that question, the speed
\* bonus within them, and the participant's score.  Stated for the first
\* question, where the points awarded for the question are the whole score.
C36_PersonalResultReportsPoints ==
    [][(QuestionEndBroadcast /\ Session.currentQuestionIndex = 0) =>
          \A p \in DOMAIN Session.participants :
              LET result == personalResult(Session, p)
                  score == Session.participants[p].score
              IN  /\ result.yourScore = score
                  /\ result.pointsEarned = score
                  /\ result.speedBonus =
                        IF score > 0 THEN score - Session.basePointsPerQuestion
                        ELSE 0]_vars

\* participant p is registered with its client's current socket
OnCurrentSocket(p) ==
    /\ Joined(p)
    /\ Session.participants[p].socketId = OpenSocket

\* C37: once a participant has joined again on a new connection, the
\* disconnect of the connection it replaced leaves the participant's entry as
\* it is, and the participant stays connected until its current socket
\* disconnects or sends session:leave.
C37_LateDisconnectIgnored ==
    [][\A p \in Pids :
          /\ (OnCurrentSocket(p) /\ StaleDisconnect(p)) =>
                UNCHANGED activeSessions
          /\ (/\ OnCurrentSocket(p) /\ Session.participants[p].isConnected
              /\ Joined(p)' /\ ~Session'.participants[p].isConnected) =>
                \/ sock'[p].id = NoSocket
                \/ sock[p].oderId /\ UNCHANGED <<sock, staleSockets>>]_vars

\* the replaced connection's disconnect came after the participant had
\* reconnected, and the participant is connected on its current socket
C37_Witness ==
    \E p \in Pids :
        /\ staleSockets[p] = ClosedLate
        /\ OnCurrentSocket(p)
        /\ Session.participants[p].isConnected
        /\ sock[p].oderId
        /\ Session.participants[p].score > 0

\* the milliseconds left of the open question
RemainingMs == Max(0, TimeLimitMs(Session) - Latency)

\* the step just taken acknowledged client p's session:join as a reconnect
Resynced(p) == HasSession /\ reply' = Ack("session:join", p, "reconnected")

WellFormed(code) ==
    /\ DOMAIN code = 1..CodeLength
    /\ \A i \in DOMAIN code : \E j \in DOMAIN chars : code[i] = chars[j]

\* C39: generateUniqueSessionCode ends after at most MaxAttempts + 1 draws;
\* it either returns a code of 6 characters of the restricted alphabet that
\* no session of the registry has, or fails, and the code it returns is
\* never that of an active session.
C39_UniqueCodeOrFailure ==
    /\ [](/\ uniqueCode.attempts <= MaxAttempts + 1
          /\ uniqueCode.outcome = "returned"
                => /\ WellFormed(uniqueCode.code)
                   /\ uniqueCode.code \notin DOMAIN activeSessions
                   /\ uniqueCode.attempts <= MaxAttempts)
    /\ <>(uniqueCode.outcome \in {"returned", "thrown"})

\* a code was returned after a draw that collided with a registered one
C39_Witness ==
    /\ uniqueCode.outcome = "returned"
    /\ uniqueCode.attempts > 1
    /\ activeSessions # << >>

\* the call gave up: every draw was the code of a registered session
C39_WitnessThrown ==
    /\ uniqueCode.outcome = "thrown"
    /\ uniqueCode.code \in DOMAIN activeSessions

====
